---- MODULE Spec2Model ----
(***************************************************************************)
(* Model of pony-gen: database introspection -> Pony ORM entity source.    *)
(* Command._make_introspection (aggregation + relationship resolution) and *)
(* Command._get_output (emission) of src/src/cli.py, together with         *)
(* normalize_col_name of src/src/sanitize_column_name.py and the parts of  *)
(* the introspection adapters they call.                                   *)
(*                                                                         *)
(* Strings are sequences of one-character strings, so that lower-casing,   *)
(* suffix stripping, regular-expression replacement and decimal suffixes   *)
(* are computed character by character as the Python code computes them.   *)
(***************************************************************************)
EXTENDS Integers, Sequences, FiniteSets, TLC

\* ------------------------------------------------------------------------
\* Characters and strings
\* ------------------------------------------------------------------------
UpperChars == <<"A","B","C","D","E","F","G","H","I","J","K","L","M",
                "N","O","P","Q","R","S","T","U","V","W","X","Y","Z">>

LowerChars == <<"a","b","c","d","e","f","g","h","i","j","k","l","m",
                "n","o","p","q","r","s","t","u","v","w","x","y","z">>

DigitChars == <<"0","1","2","3","4","5","6","7","8","9">>

\* The ASCII characters of the model in code-point order: Python compares
\* and sorts str values by code point.
AsciiOrder == <<" ", "(", ")", "-", ".">> \o DigitChars \o UpperChars \o <<"_">> \o LowerChars

Range(s) == {s[i] : i \in DOMAIN s}

IndexOf(s, c) == CHOOSE i \in DOMAIN s : s[i] = c

Ord(c) == IndexOf(AsciiOrder, c)

IsUpper(c) == c \in Range(UpperChars)

IsLower(c) == c \in Range(LowerChars)

IsAlpha(c) == IsUpper(c) \/ IsLower(c)

IsDigit(c) == c \in Range(DigitChars)

\* str.isalnum of one character
IsAlnum(c) == IsAlpha(c) \/ IsDigit(c)

\* \w of the re module, restricted to ASCII
IsWordChar(c) == IsAlpha(c) \/ IsDigit(c) \/ c = "_"

LowerCh(c) == IF IsUpper(c) THEN LowerChars[IndexOf(UpperChars, c)] ELSE c

UpperCh(c) == IF IsLower(c) THEN UpperChars[IndexOf(LowerChars, c)] ELSE c

\* str.lower()
StrLower(s) == [i \in DOMAIN s |-> LowerCh(s[i])]

\* str.startswith / str.endswith
StartsWith(s, p) == Len(s) >= Len(p) /\ SubSeq(s, 1, Len(p)) = p

EndsWith(s, p) == Len(s) >= Len(p) /\ SubSeq(s, Len(s) - Len(p) + 1, Len(s)) = p

\* str(n) for a natural number n
RECURSIVE StrOfNat(_)
StrOfNat(n) == IF n < 10 THEN <<DigitChars[n + 1]>>
               ELSE StrOfNat(n \div 10) \o <<DigitChars[(n % 10) + 1]>>

\* f"{n or ''}"
StrOrEmpty(n) == IF n = 0 THEN <<>> ELSE StrOfNat(n)

\* s < t for Python str values (lexicographic by code point)
RECURSIVE StrLess(_, _)
StrLess(s, t) ==
    IF t = <<>> THEN FALSE
    ELSE IF s = <<>> THEN TRUE
    ELSE IF s[1] # t[1] THEN Ord(s[1]) < Ord(t[1])
    ELSE StrLess(Tail(s), Tail(t))

\* sorted(S) for a set of str values
RECURSIVE SortedSeq(_)
SortedSeq(S) ==
    IF S = {} THEN <<>>
    ELSE LET m == CHOOSE x \in S : \A y \in S \ {x} : StrLess(x, y)
         IN <<m>> \o SortedSeq(S \ {m})

\* keyword.kwlist
Keywords ==
    {<<"F", "a", "l", "s", "e">>,
     <<"N", "o", "n", "e">>,
     <<"T", "r", "u", "e">>,
     <<"a", "n", "d">>,
     <<"a", "s">>,
     <<"a", "s", "s", "e", "r", "t">>,
     <<"a", "s", "y", "n", "c">>,
     <<"a", "w", "a", "i", "t">>,
     <<"b", "r", "e", "a", "k">>,
     <<"c", "l", "a", "s", "s">>,
     <<"c", "o", "n", "t", "i", "n", "u", "e">>,
     <<"d", "e", "f">>,
     <<"d", "e", "l">>,
     <<"e", "l", "i", "f">>,
     <<"e", "l", "s", "e">>,
     <<"e", "x", "c", "e", "p", "t">>,
     <<"f", "i", "n", "a", "l", "l", "y">>,
     <<"f", "o", "r">>,
     <<"f", "r", "o", "m">>,
     <<"g", "l", "o", "b", "a", "l">>,
     <<"i", "f">>,
     <<"i", "m", "p", "o", "r", "t">>,
     <<"i", "n">>,
     <<"i", "s">>,
     <<"l", "a", "m", "b", "d", "a">>,
     <<"n", "o", "n", "l", "o", "c", "a", "l">>,
     <<"n", "o", "t">>,
     <<"o", "r">>,
     <<"p", "a", "s", "s">>,
     <<"r", "a", "i", "s", "e">>,
     <<"r", "e", "t", "u", "r", "n">>,
     <<"t", "r", "y">>,
     <<"w", "h", "i", "l", "e">>,
     <<"w", "i", "t", "h">>,
     <<"y", "i", "e", "l", "d">>}

\* keyword.iskeyword
IsKeyword(s) == s \in Keywords

\* str.isidentifier, restricted to ASCII
IsIdentifier(s) ==
    /\ Len(s) > 0
    /\ IsAlpha(s[1]) \/ s[1] = "_"
    /\ \A i \in DOMAIN s : IsWordChar(s[i])

s_id == <<"i", "d">>

s__id == <<"_", "i", "d">>

s_attr == <<"a", "t", "t", "r">>

s__attr == <<"_", "a", "t", "t", "r">>

s_number_ == <<"n", "u", "m", "b", "e", "r", "_">>

s__set == <<"_", "s", "e", "t">>

\* ------------------------------------------------------------------------
\* normalize_col_name (src/src/sanitize_column_name.py)
\* ------------------------------------------------------------------------
\* re.subn(r'\W', '_', s): every non-word character is replaced on its own
ReSubNonWord(s) == [i \in DOMAIN s |-> IF IsWordChar(s[i]) THEN s[i] ELSE "_"]

\* A variant of StripId that keeps the _id ending of a foreign-key column
StripId_Never(col_name, is_related, n) == n

\* "if is_related and col_name.endswith('_id'): new_name = new_name[:-3]";
\* n is col_name.lower()
StripId(col_name, is_related, n) ==
    IF is_related /\ EndsWith(col_name, s__id) THEN SubSeq(n, 1, Len(n) - 3) ELSE n

\* "if new_name.startswith('_')"
PrefixAttr(n) == IF StartsWith(n, <<"_">>) THEN s_attr \o n ELSE n

\* "if new_name.endswith('_')"
SuffixAttr(n) == IF EndsWith(n, <<"_">>) THEN n \o s_attr ELSE n

\* "if new_name[0].isdigit()", for a non-empty n
PrefixNumber(n) == IF n # <<>> /\ IsDigit(n[1]) THEN s_number_ \o n ELSE n

\* "if iskeyword(new_name)"
KeywordAttr(n) == IF IsKeyword(n) THEN n \o s__attr ELSE n

\* "if not new_name.isidentifier()"
IdentifierAttr(n) == IF ~IsIdentifier(n) THEN n \o s__attr ELSE n

\* new_name after lines 37-50 of normalize_col_name
NameBeforeDigitTest(col_name, is_related) ==
    SuffixAttr(PrefixAttr(ReSubNonWord(StripId(col_name, is_related, StrLower(col_name)))))

\* new_name after lines 51-59
FinalName(col_name, is_related) ==
    IdentifierAttr(KeywordAttr(PrefixNumber(NameBeforeDigitTest(col_name, is_related))))

\* The result for the final name new_name; checked is the name on which
\* new_name[0] is evaluated
NormalizeResult(col_name, new_name, checked) ==
    [name   |-> new_name,
     params |-> IF col_name # new_name THEN <<[key |-> "column", val |-> col_name]>> ELSE <<>>,
     raised |-> checked = <<>>]

\* Result: name, params (the column= override, <<>> when absent),
\* raised (new_name[0] on an empty string raises IndexError).
normalize_col_name(col_name, is_related) ==
    NormalizeResult(col_name, FinalName(col_name, is_related),
                    NameBeforeDigitTest(col_name, is_related))

\* ------------------------------------------------------------------------
\* str_to_py_identifier (src/src/sanitize_column_name.py)
\* ------------------------------------------------------------------------
\* str.replace(a, b) for single characters
Replace(s, a, b) == [i \in DOMAIN s |-> IF s[i] = a THEN b ELSE s[i]]

\* str.strip(c)
RECURSIVE LStrip(_, _)
LStrip(s, c) == IF s # <<>> /\ s[1] = c THEN LStrip(Tail(s), c) ELSE s

RECURSIVE RStrip(_, _)
RStrip(s, c) == IF s # <<>> /\ s[Len(s)] = c THEN RStrip(SubSeq(s, 1, Len(s) - 1), c) ELSE s

Strip(s, c) == RStrip(LStrip(s, c), c)

\* slugify lowercases the text and replaces every character outside
\* [-a-zA-Z0-9] by the default separator '-'
SlugChar(c) == IF IsAlnum(c) \/ c = "-" THEN LowerCh(c) ELSE "-"

\* Runs of the default separator become one separator
RECURSIVE CollapseDashes(_)
CollapseDashes(s) ==
    IF Len(s) < 2 THEN s
    ELSE IF s[1] = "-" /\ s[2] = "-" THEN CollapseDashes(Tail(s))
    ELSE <<s[1]>> \o CollapseDashes(Tail(s))

\* slugify(text, separator=separator) for ASCII text without quotes, commas
\* and character entities: lowercase, disallowed characters to '-', runs
\* of '-' collapsed, '-' stripped from both ends, '-' replaced by separator
slugify(text, separator) ==
    Replace(Strip(CollapseDashes([i \in DOMAIN text |-> SlugChar(text[i])]), "-"), "-", separator)

\* slugify(input_string, separator='_').replace('.', '_')
SanitizedString(input_string) == Replace(slugify(input_string, "_"), ".", "_")

\* "if not sanitized_string or not sanitized_string[0].isalpha()"
LeadingUnderscore(s) ==
    IF s = <<>> \/ ~IsAlpha(s[1]) THEN <<"_">> \o SelectSeq(s, IsAlnum) ELSE s

\* A variant of KeywordUnderscore that leaves keywords alone
KeywordUnderscore_Never(s) == s

\* "if iskeyword(sanitized_string)"
KeywordUnderscore(s) == IF IsKeyword(s) THEN Append(s, "_") ELSE s

\* re.sub(r"([A-Z]+)([A-Z][a-z])", r'\1_\2', word): an underscore goes before
\* an uppercase letter that follows an uppercase letter and precedes a
\* lowercase one
AcronymBoundary(w, i) ==
    i > 1 /\ i < Len(w) /\ IsUpper(w[i - 1]) /\ IsUpper(w[i]) /\ IsLower(w[i + 1])

RECURSIVE SplitAcronyms(_, _)
SplitAcronyms(w, i) ==
    IF i > Len(w) THEN <<>>
    ELSE (IF AcronymBoundary(w, i) THEN <<"_", w[i]>> ELSE <<w[i]>>) \o SplitAcronyms(w, i + 1)

\* re.sub(r"([a-z\d])([A-Z])", r'\1_\2', word)
WordBoundary(w, i) == i > 1 /\ (IsLower(w[i - 1]) \/ IsDigit(w[i - 1])) /\ IsUpper(w[i])

RECURSIVE SplitWords(_, _)
SplitWords(w, i) ==
    IF i > Len(w) THEN <<>>
    ELSE (IF WordBoundary(w, i) THEN <<"_", w[i]>> ELSE <<w[i]>>) \o SplitWords(w, i + 1)

\* inflection.underscore
underscore(word) == StrLower(Replace(SplitWords(SplitAcronyms(word, 1), 1), "-", "_"))

\* inflection.camelize(string): re.sub(r"(?:^|_)(.)", upper of group 1); the
\* first character matches through ^, later ones through a preceding '_'
RECURSIVE CamelizeFrom(_, _)
CamelizeFrom(string, i) ==
    IF i > Len(string) THEN <<>>
    ELSE IF i = 1 THEN <<UpperCh(string[1])>> \o CamelizeFrom(string, 2)
    ELSE IF string[i] = "_" /\ i < Len(string)
    THEN <<UpperCh(string[i + 1])>> \o CamelizeFrom(string, i + 2)
    ELSE <<string[i]>> \o CamelizeFrom(string, i + 1)

\* inflection.camelize(string, False), for a non-empty string
camelize_lower(string) == <<LowerCh(string[1])>> \o Tail(CamelizeFrom(string, 1))

\* ''.join(word.capitalize() for word in sanitized_string.split('_'))
RECURSIVE CapitalizeWords(_, _)
CapitalizeWords(s, i) ==
    IF i > Len(s) THEN <<>>
    ELSE IF s[i] = "_" THEN CapitalizeWords(s, i + 1)
    ELSE <<IF i = 1 \/ s[i - 1] = "_" THEN UpperCh(s[i]) ELSE LowerCh(s[i])>>
         \o CapitalizeWords(s, i + 1)

\* The match statement on case_type (lines 17-27)
ApplyCase(sanitized_string, case_type) ==
    CASE case_type = "snake" -> underscore(sanitized_string)
      [] case_type = "camel" -> camelize_lower(sanitized_string)
      [] case_type = "title" -> (IF StartsWith(sanitized_string, <<"_">>) THEN <<"_">> ELSE <<>>)
                                \o CapitalizeWords(sanitized_string, 1)
      [] case_type = "const" -> [i \in DOMAIN underscore(sanitized_string) |->
                                    UpperCh(underscore(sanitized_string)[i])]

str_to_py_identifier(input_string, case_type) ==
    ApplyCase(KeywordUnderscore(LeadingUnderscore(SanitizedString(input_string))), case_type)

\* ------------------------------------------------------------------------
\* The database catalog as the introspection adapter reports it
\* ------------------------------------------------------------------------
\* A catalog maps a table name to
\*   type        "t" (table) or "v" (view)                  (base.TableInfo)
\*   columns     sequence of FieldInfo records               (get_table_description)
\*   relations   sequence of [col, ref_col, ref_table], the items of the
\*               dict returned by get_relations in iteration order
\*   constraints sequence of [columns, primary_key, unique], the values of
\*               the dict returned by get_constraints in iteration order
\*   unsupported the methods among get_relations and get_constraints that
\*               raise NotImplementedError for the table
VARIABLES catalog, pc, pos, counters, rel_counters, ret, ret_order, epos, lines

\* The surroundings of a run and what outlives one invocation of the pipeline
\*   env         [dialect, debug]: db.provider.dialect.lower() and whether the
\*               environment variable DEBUG is set
\*   imports     Command.imports, a set that is an attribute of the class
\*   run         [n, instance, rows]: the number of the invocation of
\*               _get_output in this process, whether it uses the Command
\*               object of the first invocation, and whether the catalog
\*               returns its rows in the order of the first invocation
\*   first_lines the lines the first invocation yielded
\*   call        the application of a pure function under study
VARIABLES env, imports, run, first_lines, call

vars == <<catalog, pc, pos, counters, rel_counters, ret, ret_order, epos, lines,
          env, imports, run, first_lines, call>>

\* base.Introspection.table_names: sorted names of the tables (views excluded)
table_names(cat) == SortedSeq({t \in DOMAIN cat : cat[t].type = "t"})

\* base.Introspection.get_primary_key_columns
RECURSIVE FirstPrimaryKey(_, _)
FirstPrimaryKey(constraints, i) ==
    IF i > Len(constraints) THEN <<>>
    ELSE IF constraints[i].primary_key THEN constraints[i].columns
    ELSE FirstPrimaryKey(constraints, i + 1)

get_primary_key_columns(constraints) == FirstPrimaryKey(constraints, 1)

\* chain.from_iterable(c['columns'] for c in constraints.values() if c['unique'])
RECURSIVE UniqueColumnsFrom(_, _)
UniqueColumnsFrom(constraints, i) ==
    IF i > Len(constraints) THEN <<>>
    ELSE (IF constraints[i].unique THEN constraints[i].columns ELSE <<>>)
         \o UniqueColumnsFrom(constraints, i + 1)

unique_columns_of(constraints) == UniqueColumnsFrom(constraints, 1)

\* Command.is_pony_table
s_migration == <<"m", "i", "g", "r", "a", "t", "i", "o", "n">>

s_pony_version == <<"p", "o", "n", "y", "_", "v", "e", "r", "s", "i", "o", "n">>

is_pony_table(table) == table \in {s_migration, s_pony_version}

\* ------------------------------------------------------------------------
\* defaultdict helpers
\* ------------------------------------------------------------------------
\* defaultdict(int): value of a key, 0 when the key is absent
CounterGet(c, k) == IF k \in DOMAIN c THEN c[k] ELSE 0

\* A variant of CounterInc that assigns 1 instead of adding 1
CounterInc_Assign(c, k) == [x \in (DOMAIN c) \cup {k} |-> IF x = k THEN 1 ELSE c[x]]

\* c[k] += 1
CounterInc(c, k) == [x \in (DOMAIN c) \cup {k} |-> IF x = k THEN CounterGet(c, k) + 1 ELSE c[x]]

\* The value the defaultdict factory of ret creates for a new key
EmptyIntrospection ==
    [relations |-> <<>>, rel_attrs |-> <<>>, description |-> <<>>,
     unique_columns |-> <<>>, primary_key_columns |-> <<>>, constraints |-> <<>>]

\* ret[t]: the mapping (with its key order) after the access
RetTouch(r, t) ==
    IF t \in DOMAIN r.map THEN r
    ELSE [map   |-> [x \in (DOMAIN r.map) \cup {t} |-> IF x = t THEN EmptyIntrospection ELSE r.map[x]],
          order |-> Append(r.order, t)]

\* A variant of RetAppendAttr that inserts the attribute at the front
RetAppendAttr_Prepend(r, t, attr) ==
    LET r1 == RetTouch(r, t)
    IN [r1 EXCEPT !.map[t].rel_attrs = <<attr>> \o @]

\* ret[t]['rel_attrs'].append(attr)
RetAppendAttr(r, t, attr) ==
    LET r1 == RetTouch(r, t)
    IN [r1 EXCEPT !.map[t].rel_attrs = Append(@, attr)]

\* name in relations / relations[name][1]
RelHas(relations, name) == \E i \in DOMAIN relations : relations[i].col = name

RelTable(relations, name) ==
    relations[CHOOSE i \in DOMAIN relations : relations[i].col = name].ref_table

\* ------------------------------------------------------------------------
\* Command._make_introspection, one iteration of the loop over the tables
\* ------------------------------------------------------------------------
\* f"{field.name}{counters[(table_name, field.name)] or ''}" (cli.py 107)
SuffixedName(cnt, table_name, name) == name \o StrOrEmpty(CounterGet(cnt, <<table_name, name>>))

\* "normalize field names & increment field name counters" (cli.py 103-108),
\* from row i on. NormalizeField is the loop body for a row that is no
\* relation, n the result of normalize_col_name; RenameField stores the
\* suffixed name and increments its counter.
RECURSIVE NormalizeFields(_, _, _, _, _)
RECURSIVE NormalizeField(_, _, _, _, _, _)
RECURSIVE RenameField(_, _, _, _, _, _)
NormalizeFields(table_name, relations, desc, cnt, i) ==
    IF i > Len(desc) THEN [description |-> desc, counters |-> cnt, raised |-> FALSE]
    ELSE IF RelHas(relations, desc[i].name)
    THEN NormalizeFields(table_name, relations, desc, cnt, i + 1)
    ELSE NormalizeField(table_name, relations, desc, cnt, i,
                        normalize_col_name(desc[i].name, FALSE))

NormalizeField(table_name, relations, desc, cnt, i, n) ==
    IF n.raised THEN [description |-> desc, counters |-> cnt, raised |-> TRUE]
    ELSE RenameField(table_name, relations, desc, cnt, i, SuffixedName(cnt, table_name, n.name))

RenameField(table_name, relations, desc, cnt, i, name) ==
    NormalizeFields(table_name, relations, [desc EXCEPT ![i].name = name],
                    CounterInc(cnt, <<table_name, name>>), i + 1)

\* "check if it's an m2m table" (cli.py 110-122): the for/else loop.
\* completed is FALSE when the loop was left by break.
RECURSIVE RelatedTables(_, _, _, _, _)
RelatedTables(relations, primary_key_columns, desc, related, i) ==
    IF i > Len(desc) THEN [related |-> related, completed |-> TRUE]
    ELSE IF ~RelHas(relations, desc[i].name)
    THEN IF desc[i].name \in Range(primary_key_columns)
         THEN RelatedTables(relations, primary_key_columns, desc, related, i + 1)
         ELSE [related |-> related, completed |-> FALSE]
    ELSE RelatedTables(relations, primary_key_columns, desc,
                       Append(related, [table |-> RelTable(relations, desc[i].name),
                                        field |-> desc[i].name]),
                       i + 1)

IsM2M(rt) == rt.completed /\ Cardinality({rt.related[i].table : i \in DOMAIN rt.related}) = 2

\* A variant of M2MSetName that drops the "or ''" of the format string
M2MSetName_AlwaysNumbered(field, n) == field \o s__set \o StrOfNat(n)

\* f"{field}_set{counter or ''}" (cli.py 127-128)
M2MSetName(field, n) == field \o s__set \o StrOrEmpty(n)

\* A variant of M2MAttr that stores the attribute's own name as its reverse
M2MAttr_ReverseIsName(name, table, reverse) ==
    [name |-> name, table |-> table, cls |-> "Set", reverse |-> name, kwargs |-> <<>>]

\* The attribute dictionary appended in the m2m branch (cli.py 132-135)
M2MAttr(name, table, reverse) ==
    [name |-> name, table |-> table, cls |-> "Set", reverse |-> reverse, kwargs |-> <<>>]

\* cli.py 129-136 for the two entries of related_tables and the attribute
\* names this_set, other_set computed from them
StoreM2MPair(this, other, this_set, other_set, cnt, relcnt, r) ==
    [counters |-> CounterInc(CounterInc(cnt, <<this.table, other.field>>),
                             <<other.table, this.field>>),
     rel_counters |-> CounterInc(CounterInc(relcnt, <<this.table, other.table>>),
                                 <<other.table, this.table>>),
     ret |-> RetAppendAttr(RetAppendAttr(r, this.table,
                                         M2MAttr(other_set, other.table, this_set)),
                           other.table, M2MAttr(this_set, this.table, other_set)),
     raised |-> FALSE]

\* The m2m branch (cli.py 123-137). "this, other = related_tables" raises
\* ValueError unless related_tables has exactly two entries.
StoreM2M(related, cnt, relcnt, r) ==
    IF Len(related) # 2
    THEN [counters |-> cnt, rel_counters |-> relcnt, ret |-> r, raised |-> TRUE]
    ELSE StoreM2MPair(related[1], related[2],
                      M2MSetName(related[1].field,
                                 CounterGet(cnt, <<related[2].table, related[1].field>>)),
                      M2MSetName(related[2].field,
                                 CounterGet(cnt, <<related[1].table, related[2].field>>)),
                      cnt, relcnt, r)

\* f"{reverse}_set{index or ''}" (cli.py 146-149)
ReverseName(cnt, table_name, ref_table) ==
    StrLower(table_name) \o s__set \o StrOrEmpty(CounterGet(cnt, <<ref_table, StrLower(table_name)>>))

\* A variant of StoreRelationPair that stores no reverse attribute on the
\* referenced table
StoreRelationPair_NoReverse(table_name, ref_table, att_name, reverse, kwargs, cnt, relcnt, r) ==
    [counters |-> cnt,
     rel_counters |-> CounterInc(CounterInc(relcnt, <<table_name, ref_table>>),
                                 <<ref_table, table_name>>),
     ret |-> RetAppendAttr(RetTouch(r, table_name), table_name,
                           [name |-> att_name, table |-> ref_table, cls |-> "Required",
                            reverse |-> reverse, kwargs |-> kwargs]),
     raised |-> FALSE]

\* A variant of StoreRelationPair that counts the edge in one direction only
StoreRelationPair_OneEdge(table_name, ref_table, att_name, reverse, kwargs, cnt, relcnt, r) ==
    [counters |-> cnt,
     rel_counters |-> CounterInc(relcnt, <<table_name, ref_table>>),
     ret |-> RetAppendAttr(
                 RetAppendAttr(RetTouch(r, table_name), table_name,
                               [name |-> att_name, table |-> ref_table, cls |-> "Required",
                                reverse |-> reverse, kwargs |-> kwargs]),
                 ref_table,
                 [name |-> reverse, table |-> table_name, cls |-> "Set",
                  reverse |-> att_name, kwargs |-> <<>>]),
     raised |-> FALSE]

\* The two appends and the two edge-counter increments (cli.py 144-154) for
\* the attribute names att_name and reverse; cnt is counters after both
\* field-name counters were incremented
StoreRelationPair(table_name, ref_table, att_name, reverse, kwargs, cnt, relcnt, r) ==
    [counters |-> cnt,
     rel_counters |-> CounterInc(CounterInc(relcnt, <<table_name, ref_table>>),
                                 <<ref_table, table_name>>),
     ret |-> RetAppendAttr(
                 RetAppendAttr(RetTouch(r, table_name), table_name,
                               [name |-> att_name, table |-> ref_table, cls |-> "Required",
                                reverse |-> reverse, kwargs |-> kwargs]),
                 ref_table,
                 [name |-> reverse, table |-> table_name, cls |-> "Set",
                  reverse |-> att_name, kwargs |-> <<>>]),
     raised |-> FALSE]

\* The body of the loop over relations.items() (cli.py 140-154); n is the
\* result of normalize_col_name(column_name, is_related=True), cnt1 is
\* counters after the increment of line 142
RelationStep(table_name, ref_table, n, cnt1, st) ==
    StoreRelationPair(table_name, ref_table,
                      SuffixedName(st.counters, table_name, n.name),
                      ReverseName(cnt1, table_name, ref_table),
                      n.params,
                      CounterInc(cnt1, <<ref_table, StrLower(table_name)>>),
                      st.rel_counters, st.ret)

\* "calculate relation attributes" (cli.py 139-154), folded over
\* relations.items() from entry i on; st = [counters, rel_counters, ret, raised]
RECURSIVE RelationAttributes(_, _, _, _)
RECURSIVE RelationAttribute(_, _, _, _, _)
RelationAttributes(table_name, relations, st, i) ==
    IF i > Len(relations) \/ st.raised THEN st
    ELSE RelationAttribute(table_name, relations, st, i,
                           normalize_col_name(relations[i].col, TRUE))

RelationAttribute(table_name, relations, st, i, n) ==
    IF n.raised THEN [st EXCEPT !.raised = TRUE]
    ELSE RelationAttributes(table_name, relations,
                            RelationStep(table_name, relations[i].ref_table, n,
                                         CounterInc(st.counters, <<table_name, n.name>>), st),
                            i + 1)

\* "table_intro = ret[table_name]" and the five assignments (cli.py 155-160)
\* after the relation loop ended in st
StoreDescription(table_name, relations, constraints, description, st) ==
    IF st.raised THEN st
    ELSE [st EXCEPT !.ret =
            [RetTouch(st.ret, table_name) EXCEPT !.map[table_name] =
                [@ EXCEPT !.relations = relations,
                          !.description = description,
                          !.unique_columns = unique_columns_of(constraints),
                          !.primary_key_columns = get_primary_key_columns(constraints),
                          !.constraints = constraints]]]

\* cli.py 109-160 for the description nf left by the renaming loop and the
\* outcome rt of the m2m test
ResolveTable(table_name, relations, constraints, nf, rt, relcnt, r) ==
    IF nf.raised
    THEN [counters |-> nf.counters, rel_counters |-> relcnt, ret |-> r, raised |-> TRUE]
    ELSE IF IsM2M(rt) THEN StoreM2M(rt.related, nf.counters, relcnt, r)
    ELSE StoreDescription(table_name, relations, constraints, nf.description,
                          RelationAttributes(table_name, relations,
                                             [counters |-> nf.counters, rel_counters |-> relcnt,
                                              ret |-> r, raised |-> FALSE], 1))

\* cli.py 99-160 for the renamed description nf
ClassifyTable(table_name, relations, constraints, nf, relcnt, r) ==
    ResolveTable(table_name, relations, constraints, nf,
                 RelatedTables(relations, get_primary_key_columns(constraints),
                               nf.description, <<>>, 1),
                 relcnt, r)

\* The try statements of cli.py 87-98: relations, or {} after a
\* NotImplementedError that is not raised again
RelationsOrEmpty(tab) == IF "get_relations" \in tab.unsupported THEN <<>> ELSE tab.relations

ConstraintsOrEmpty(tab) == IF "get_constraints" \in tab.unsupported THEN <<>> ELSE tab.constraints

\* NotImplementedError leaves the iteration: raised again by one of the
\* except clauses when DEBUG is set (cli.py 90-91, 96-97), or raised by the
\* call of get_constraints inside get_primary_key_columns (cli.py 99,
\* base.py 134), which no try statement encloses
NotSupportedRaises(tab) ==
    \/ env.debug /\ tab.unsupported # {}
    \/ "get_constraints" \in tab.unsupported

\* One iteration of "for table_name in tables_to_introspect" (cli.py 84-160).
\* Result: the new counters, rel_counters and ret, or raised = TRUE when the
\* iteration ends in an exception.
IntrospectTable(cat, table_name, cnt, relcnt, r) ==
    IF is_pony_table(table_name)
    THEN [counters |-> cnt, rel_counters |-> relcnt, ret |-> r, raised |-> FALSE]
    ELSE IF NotSupportedRaises(cat[table_name])
    THEN [counters |-> cnt, rel_counters |-> relcnt, ret |-> r, raised |-> TRUE]
    ELSE ClassifyTable(table_name, RelationsOrEmpty(cat[table_name]),
                       ConstraintsOrEmpty(cat[table_name]),
                       NormalizeFields(table_name, RelationsOrEmpty(cat[table_name]),
                                       cat[table_name].columns, cnt, 1),
                       relcnt, r)

\* ------------------------------------------------------------------------
\* Field types: Introspection.get_field_type of the three adapters,
\* Command.get_field_type
\* ------------------------------------------------------------------------
\* postgres.Introspection.data_types_reverse
PgTypeCodes == {16, 17, 20, 21, 23, 25, 700, 701, 869, 1042, 1043, 1082, 1083,
                1114, 1184, 1266, 1700, 2950}

data_types_reverse(code) ==
    CASE code = 16 -> "bool"
      [] code = 17 -> "buffer"
      [] code \in {20, 21, 23} -> "int"
      [] code \in {25, 869, 1042, 1043} -> "str"
      [] code \in {700, 701} -> "float"
      [] code = 1082 -> "date"
      [] code \in {1083, 1266} -> "time"
      [] code \in {1114, 1184} -> "datetime"
      [] code = 1700 -> "Decimal"
      [] code = 2950 -> "UUID"

\* mysql.Introspection.data_types_reverse, keyed by the values of
\* MySQLdb.constants.FIELD_TYPE; CHAR and TINY are the same value, and the
\* later entry of the dict display (TINY: 'int') is the one that stays
MysqlTypeCodes == {0, 1, 2, 3, 4, 5, 7, 8, 9, 10, 11, 12, 246, 249, 250, 251, 252, 253, 254}

mysql_data_types_reverse(code) ==
    CASE code \in {0, 246} -> "Decimal"
      [] code \in {1, 2, 3, 8, 9} -> "int"
      [] code \in {4, 5} -> "float"
      [] code \in {7, 11} -> "time"
      [] code = 10 -> "date"
      [] code = 12 -> "datetime"
      [] code \in {249, 250, 251, 253, 254} -> "str"
      [] code = 252 -> "buffer"

\* sqlite.Introspection.data_types_reverse, keyed by lowercase type names
SqliteTypeNames ==
    {<<"b", "o", "o", "l">>,
     <<"b", "o", "o", "l", "e", "a", "n">>,
     <<"s", "m", "a", "l", "l", "i", "n", "t">>,
     <<"s", "m", "a", "l", "l", "i", "n", "t", " ", "u", "n", "s", "i", "g", "n", "e", "d">>,
     <<"s", "m", "a", "l", "l", "i", "n", "t", "e", "g", "e", "r">>,
     <<"i", "n", "t">>,
     <<"i", "n", "t", "e", "g", "e", "r">>,
     <<"b", "i", "g", "i", "n", "t">>,
     <<"i", "n", "t", "e", "g", "e", "r", " ", "u", "n", "s", "i", "g", "n", "e", "d">>,
     <<"d", "e", "c", "i", "m", "a", "l">>,
     <<"r", "e", "a", "l">>,
     <<"t", "e", "x", "t">>,
     <<"c", "h", "a", "r">>,
     <<"b", "l", "o", "b">>,
     <<"d", "a", "t", "e">>,
     <<"d", "a", "t", "e", "t", "i", "m", "e">>,
     <<"t", "i", "m", "e">>}

sqlite_data_types_reverse(name) ==
    CASE name \in {<<"b", "o", "o", "l">>, <<"b", "o", "o", "l", "e", "a", "n">>} -> "bool"
      [] name \in {<<"s", "m", "a", "l", "l", "i", "n", "t">>, <<"s", "m", "a", "l", "l", "i", "n", "t", " ", "u", "n", "s", "i", "g", "n", "e", "d">>, <<"s", "m", "a", "l", "l", "i", "n", "t", "e", "g", "e", "r">>, <<"i", "n", "t">>, <<"i", "n", "t", "e", "g", "e", "r">>, <<"b", "i", "g", "i", "n", "t">>, <<"i", "n", "t", "e", "g", "e", "r", " ", "u", "n", "s", "i", "g", "n", "e", "d">>} -> "int"
      [] name \in {<<"d", "e", "c", "i", "m", "a", "l">>} -> "Decimal"
      [] name \in {<<"r", "e", "a", "l">>} -> "float"
      [] name \in {<<"t", "e", "x", "t">>} -> "LongStr"
      [] name \in {<<"c", "h", "a", "r">>} -> "str"
      [] name \in {<<"b", "l", "o", "b">>} -> "buffer"
      [] name \in {<<"d", "a", "t", "e">>} -> "date"
      [] name \in {<<"d", "a", "t", "e", "t", "i", "m", "e">>} -> "datetime"
      [] name \in {<<"t", "i", "m", "e">>} -> "time"

\* Introspection.imports.get(field_type) of the adapter of dialect d; ""
\* stands for None
ImportOf(d, field_type) ==
    CASE field_type = "UUID" /\ d = "postgresql" -> "from uuid import UUID"
      [] field_type = "LongStr" -> "from pony.orm.ormtypes import LongStr"
      [] field_type = "datetime" -> "from datetime import datetime"
      [] field_type = "time" -> "from datetime import time"
      [] field_type = "date" -> "from datetime import date"
      [] field_type = "Decimal" -> "from decimal import Decimal"
      [] field_type = "buffer" /\ d = "sqlite" -> "from pony.py23compat import buffer"
      [] OTHER -> ""

\* Column defaults that contain the substring 'nextval'
NextvalDefaults == {"nextval('seq'::regclass)"}

\* Absent value (None) of the numeric FieldInfo attributes
None == -1

\* int(s) for a string of digits
RECURSIVE NatOfStr(_)
NatOfStr(s) ==
    IF s = <<>> THEN 0
    ELSE 10 * NatOfStr(SubSeq(s, 1, Len(s) - 1)) + (IndexOf(DigitChars, s[Len(s)]) - 1)

\* sqlite.get_field_size: field_size_re = ^\s*(?:var)?char\s*\(\s*(\d+)\s*\)\s*$
\* matched from the left; an index 0 says the match has failed
HasAt(s, i, p) == i + Len(p) - 1 <= Len(s) /\ SubSeq(s, i, i + Len(p) - 1) = p

RECURSIVE SkipSpaces(_, _)
SkipSpaces(s, i) == IF i <= Len(s) /\ s[i] = " " THEN SkipSpaces(s, i + 1) ELSE i

RECURSIVE SkipDigits(_, _)
SkipDigits(s, i) == IF i <= Len(s) /\ IsDigit(s[i]) THEN SkipDigits(s, i + 1) ELSE i

Spaces(s, i) == IF i = 0 THEN 0 ELSE SkipSpaces(s, i)

Expect(s, i, p) == IF i > 0 /\ HasAt(s, i, p) THEN i + Len(p) ELSE 0

OptionalVar(s, i) == IF HasAt(s, i, <<"v", "a", "r">>) THEN i + 3 ELSE i

DigitsStart(s) ==
    Spaces(s, Expect(s, Spaces(s, Expect(s, OptionalVar(s, Spaces(s, 1)), <<"c", "h", "a", "r">>)),
                     <<"(">>))

DigitsEnd(s) == IF DigitsStart(s) = 0 THEN 0 ELSE SkipDigits(s, DigitsStart(s))

MatchEnd(s) == Spaces(s, Expect(s, Spaces(s, DigitsEnd(s)), <<")">>))

get_field_size(name) ==
    IF DigitsEnd(name) > DigitsStart(name) /\ MatchEnd(name) = Len(name) + 1
    THEN NatOfStr(SubSeq(name, DigitsStart(name), DigitsEnd(name) - 1))
    ELSE None

\* "if description.default and 'nextval' in description.default:
\*      if field_type == 'int': return 'AUTO', ..."; the import is looked up
\* for field_type before that
KnownType(d, row, field_type) ==
    [field_type |-> IF row.default \in NextvalDefaults /\ field_type = "int" THEN "AUTO" ELSE field_type,
     opts |-> <<>>, import |-> ImportOf(d, field_type), error |-> "none"]

\* The lookup in data_types_reverse raised KeyError
UnknownType == [field_type |-> "", opts |-> <<>>, import |-> "", error |-> "KeyError"]

\* postgres.Introspection.get_field_type
pg_get_field_type(row) ==
    IF row.type_code \notin PgTypeCodes THEN UnknownType
    ELSE KnownType("postgresql", row, data_types_reverse(row.type_code))

\* mysql.Introspection.get_field_type
mysql_get_field_type(row) ==
    IF row.type_code \notin MysqlTypeCodes THEN UnknownType
    ELSE KnownType("mysql", row, mysql_data_types_reverse(row.type_code))

\* The except branch of sqlite.Introspection.get_field_type for the
\* lowercase type name data_type and size = get_field_size(data_type):
\* "assert size is not None" raises AssertionError
SqliteSizedStr(row, size) ==
    IF size = None
    THEN [field_type |-> "", opts |-> <<>>, import |-> "", error |-> "AssertionError"]
    ELSE [KnownType("sqlite", row, "str") EXCEPT
            !.opts = <<[key |-> "max_len", val |-> StrOfNat(size)]>>]

\* sqlite.Introspection.get_field_type
sqlite_get_field_type(row) ==
    IF StrLower(row.type_code) \in SqliteTypeNames
    THEN KnownType("sqlite", row, sqlite_data_types_reverse(StrLower(row.type_code)))
    ELSE SqliteSizedStr(row, get_field_size(StrLower(row.type_code)))

\* self.introspection.get_field_type(row.type_code, row)
introspection_get_field_type(d, row) ==
    CASE d = "postgresql" -> pg_get_field_type(row)
      [] d = "mysql" -> mysql_get_field_type(row)
      [] d = "sqlite" -> sqlite_get_field_type(row)

s_True == <<"T", "r", "u", "e">>

\* field_params.update(opts): a key that is present keeps its place
RECURSIVE ParamsUpdate(_, _)
ParamsUpdate(params, opts) ==
    IF opts = <<>> THEN params
    ELSE ParamsUpdate(
            IF \E i \in DOMAIN params : params[i].key = opts[1].key
            THEN [i \in DOMAIN params |-> IF params[i].key = opts[1].key THEN opts[1] ELSE params[i]]
            ELSE Append(params, opts[1]),
            Tail(opts))

\* "if field_type == 'str' and row.internal_size" (cli.py 271-274)
MaxLenParam(row, field_type) ==
    IF field_type = "str" /\ row.internal_size \notin {None, 0}
    THEN <<[key |-> "max_len", val |-> StrOfNat(row.internal_size)]>> ELSE <<>>

\* "if field_type == 'Decimal'" (cli.py 275-282)
DecimalParams(row, field_type) ==
    IF field_type = "Decimal"
    THEN <<[key |-> "precision",
            val |-> StrOfNat(IF row.precision # None THEN row.precision ELSE 10)],
           [key |-> "scale",
            val |-> StrOfNat(IF row.scale # None THEN row.scale ELSE 5)]>>
    ELSE <<>>

\* A variant of DecimalNotes that attaches the note only when neither value
\* was reported
DecimalNotes_BothMissing(row, field_type) ==
    IF field_type = "Decimal" /\ (row.precision = None /\ row.scale = None)
    THEN <<"scale and precision have been guessed, as this database handles decimal fields as float">>
    ELSE <<>>

DecimalNotes(row, field_type) ==
    IF field_type = "Decimal" /\ (row.precision = None \/ row.scale = None)
    THEN <<"scale and precision have been guessed, as this database handles decimal fields as float">>
    ELSE <<>>

\* cli.py 261-283 for the outcome of the try statement
FieldTypeResult(row, field_type, opts, import, notes) ==
    [field_type |-> field_type,
     field_params |-> ParamsUpdate(ParamsUpdate(opts, MaxLenParam(row, field_type)),
                                   DecimalParams(row, field_type)),
     field_notes |-> notes \o DecimalNotes(row, field_type),
     import |-> import,
     raised |-> FALSE]

\* cli.py 254-260: KeyError is caught and the type is guessed; any other
\* exception of the adapter leaves get_field_type
FieldTypeOf(row, a) ==
    IF a.error = "KeyError"
    THEN FieldTypeResult(row, "LongStr", <<>>, "from pony.orm.ormtypes import LongStr",
                         <<"This field type is a guess.">>)
    ELSE IF a.error # "none"
    THEN [field_type |-> "", field_params |-> <<>>, field_notes |-> <<>>, import |-> "",
          raised |-> TRUE]
    ELSE FieldTypeResult(row, a.field_type, a.opts, a.import, <<>>)

\* Command.get_field_type: field type, keyword parameters (in insertion
\* order), notes, the import line added to Command.imports ("" for none),
\* and whether the call raised
get_field_type(row) == FieldTypeOf(row, introspection_get_field_type(env.dialect, row))

\* ------------------------------------------------------------------------
\* Command._get_output, one iteration of the loop over all_data.items()
\* ------------------------------------------------------------------------
KWARGS_ORDER == <<"unique", "nullable", "default", "column">>

\* sort_key of cli.py 208-214
sort_key(key, field_kwargs) ==
    IF key \in Range(KWARGS_ORDER) THEN IndexOf(KWARGS_ORDER, key) - 1 ELSE Len(field_kwargs)

\* sorted(field_kwargs.items(), key=sort_key): a stable sort
RECURSIVE InsertSorted(_, _, _)
InsertSorted(sorted, item, kw) ==
    IF sorted = <<>> THEN <<item>>
    ELSE IF sort_key(sorted[Len(sorted)].key, kw) <= sort_key(item.key, kw)
    THEN Append(sorted, item)
    ELSE Append(InsertSorted(SubSeq(sorted, 1, Len(sorted) - 1), item, kw), sorted[Len(sorted)])

RECURSIVE SortKwargs(_, _, _)
SortKwargs(kw, sorted, i) ==
    IF i > Len(kw) THEN sorted
    ELSE SortKwargs(kw, InsertSorted(sorted, kw[i], kw), i + 1)

\* The lines one row of the table description yields (cli.py 182-230):
\* <<>> for a relation column or an elided id column, else one field line.
FieldLines(table_name, data, row) ==
    LET column_name == row.name
        att_name == row.name
        sole_pk == <<column_name>> = data.primary_key_columns
        unique == ~sole_pk /\ column_name \in Range(data.unique_columns)
        is_relation == RelHas(data.relations, column_name)
        ft == get_field_type(row)
        extra0 == IF sole_pk THEN <<[key |-> "primary_key", val |-> s_True]>> ELSE <<>>
        kw0 == IF unique THEN <<[key |-> "unique", val |-> s_True]>> ELSE <<>>
        extra_params == IF is_relation THEN extra0 ELSE extra0 \o ft.field_params
        field_kwargs == IF is_relation THEN kw0 ELSE kw0 \o ft.field_params
        comment_notes == IF is_relation THEN <<>> ELSE ft.field_notes
        elided == /\ att_name = s_id
                  /\ {extra_params[i].key : i \in DOMAIN extra_params} = {"primary_key"}
                  /\ ft.field_type = "AUTO"
        cls == IF sole_pk THEN "PrimaryKey"
               ELSE IF row.null_ok THEN "Optional"
               ELSE "Required"
    IN IF elided \/ is_relation THEN <<>>
       ELSE <<[kind |-> "field", table |-> table_name, name |-> att_name, cls |-> cls,
               type |-> ft.field_type, kwargs |-> SortKwargs(field_kwargs, <<>>, 1),
               notes |-> comment_notes]>>

\* The field lines yielded from row i on, up to the row on which
\* get_field_type raises
RECURSIVE AllFieldLines(_, _, _)
AllFieldLines(table_name, data, i) ==
    IF i > Len(data.description) THEN <<>>
    ELSE IF get_field_type(data.description[i]).raised THEN <<>>
    ELSE FieldLines(table_name, data, data.description[i]) \o AllFieldLines(table_name, data, i + 1)

\* get_field_type raises on a row of the description
FieldTypeRaises(data) ==
    \E i \in DOMAIN data.description : get_field_type(data.description[i]).raised

\* The import lines self.imports.add receives while the rows of the
\* description are processed (cli.py 261-262)
TableImports(data) ==
    {get_field_type(data.description[i]).import :
        i \in {k \in DOMAIN data.description :
                  \A j \in 1..k : ~get_field_type(data.description[j]).raised}} \ {""}

\* str.title(): a letter is uppercased when no letter precedes it, and
\* lowercased otherwise
Title(s) ==
    [i \in DOMAIN s |-> IF i > 1 /\ IsAlpha(s[i - 1]) THEN LowerCh(s[i]) ELSE UpperCh(s[i])]

\* Command.table2model: re.sub(r'[^a-zA-Z0-9]', '', table_name.title())
table2model(table_name) == SelectSeq(Title(table_name), IsAlnum)

s_reverse == "reverse"

\* A variant of RelLine whose threshold is off by one (> 0 for > 1)
RelLine_AnyEdge(table_name, attr, relcnt) ==
    [kind |-> "rel", table |-> table_name, name |-> attr.name, cls |-> attr.cls,
     target |-> attr.table, model |-> table2model(attr.table),
     kwargs |-> IF CounterGet(relcnt, <<table_name, attr.table>>) > 0
                THEN Append(attr.kwargs, [key |-> s_reverse, val |-> attr.reverse])
                ELSE attr.kwargs]

\* The line of one relationship attribute (cli.py 232-240)
RelLine(table_name, attr, relcnt) ==
    [kind |-> "rel", table |-> table_name, name |-> attr.name, cls |-> attr.cls,
     target |-> attr.table, model |-> table2model(attr.table),
     kwargs |-> IF CounterGet(relcnt, <<table_name, attr.table>>) > 1
                THEN Append(attr.kwargs, [key |-> s_reverse, val |-> attr.reverse])
                ELSE attr.kwargs]

\* "compound primary key" (cli.py 241-244). column_to_field_name maps every
\* row.name of the description to itself; a primary-key column that is not
\* among them raises KeyError.
CompoundKey(table_name, data) ==
    LET known == {data.description[i].name : i \in DOMAIN data.description}
        pk == data.primary_key_columns
    IN IF Len(pk) <= 1 THEN [lines |-> <<>>, raised |-> FALSE]
       ELSE IF \E i \in DOMAIN pk : pk[i] \notin known THEN [lines |-> <<>>, raised |-> TRUE]
       ELSE [lines |-> <<[kind |-> "pk", table |-> table_name, attrs |-> pk]>>, raised |-> FALSE]

\* All lines of one table's class, and whether the iteration raised
TableLines(table_name, data, relcnt) ==
    IF FieldTypeRaises(data)
    THEN [lines |-> <<[kind |-> "class", table |-> table_name, model |-> table2model(table_name)]>>
                    \o AllFieldLines(table_name, data, 1),
          raised |-> TRUE]
    ELSE LET ck == CompoundKey(table_name, data)
         IN [lines |-> <<[kind |-> "class", table |-> table_name, model |-> table2model(table_name)]>>
                  \o AllFieldLines(table_name, data, 1)
                  \o [i \in DOMAIN data.rel_attrs |-> RelLine(table_name, data.rel_attrs[i], relcnt)]
                  \o ck.lines,
             raised |-> ck.raised]

\* ------------------------------------------------------------------------
\* Schemas the model is run on
\* ------------------------------------------------------------------------
\* Longest column list of the table under study in each family of schemas
MaxNameCols == 3

MaxRelCols == 3

MaxKeyCols == 3

MaxTypeCols == 2

MaxEdgeCols == 3

MaxShapeCols == 2

MaxForeignCols == 3

IntCode == 23

TextCode == 25

tA == <<"a">>

tB == <<"b">>

tJ == <<"j">>

tK == <<"k">>

tZ == <<"Z">>

NoFk == <<>>

c_id == s_id

c_ID == <<"I", "D">>

c_nm == <<"n", "m">>

c_Nm == <<"N", "m">>

c_NM == <<"N", "M">>

c_nm1 == <<"n", "m", "1">>

c_a_id == <<"a", "_", "i", "d">>

c_b_id == <<"b", "_", "i", "d">>

c_c_id == <<"c", "_", "i", "d">>

c_p_id == <<"p", "_", "i", "d">>

c_j_id == <<"j", "_", "i", "d">>

c_k_id == <<"k", "_", "i", "d">>

t_author == <<"a", "u", "t", "h", "o", "r">>

t_book == <<"b", "o", "o", "k">>

c_full_name == <<"f", "u", "l", "l", "_", "n", "a", "m", "e">>

c_title == <<"t", "i", "t", "l", "e">>

c_author_id == <<"a", "u", "t", "h", "o", "r", "_", "i", "d">>

\* A column of a schema: catalog name, referenced table (NoFk when the column
\* is no foreign key), membership in the primary key, and whether the column
\* is a serial (integer with a nextval default) or a text column.
ColSpec(name, fk, pk, serial) == [name |-> name, fk |-> fk, pk |-> pk, serial |-> serial]

\* The FieldInfo postgres.Introspection.get_table_description builds
FieldInfoOf(c) ==
    [name |-> c.name,
     type_code |-> IF c.serial \/ c.fk # NoFk THEN IntCode ELSE TextCode,
     internal_size |-> None, precision |-> None, scale |-> None,
     null_ok |-> FALSE,
     default |-> IF c.serial THEN "nextval('seq'::regclass)" ELSE ""]

IsFkSpec(c) == c.fk # NoFk

IsPkSpec(c) == c.pk

ColNamesOf(cs) == [i \in DOMAIN cs |-> cs[i].name]

\* What the adapter reports for a table with the columns cs
TableOf(cs) ==
    LET fks == SelectSeq(cs, IsFkSpec)
        pks == SelectSeq(cs, IsPkSpec)
    IN [type |-> "t",
        columns |-> [i \in DOMAIN cs |-> FieldInfoOf(cs[i])],
        relations |-> [i \in DOMAIN fks |->
                         [col |-> fks[i].name, ref_col |-> s_id, ref_table |-> fks[i].fk]],
        constraints |-> IF pks = <<>> THEN <<>>
                        ELSE <<[columns |-> ColNamesOf(pks), primary_key |-> TRUE, unique |-> TRUE]>>,
        unsupported |-> {}]

\* Column lists of length 1..n over a pool of columns, with distinct names
RECURSIVE ColLists(_, _)
ColLists(pool, n) ==
    IF n = 0 THEN {<<>>}
    ELSE LET shorter == ColLists(pool, n - 1)
         IN shorter \cup
            {Append(cs, c) : <<cs, c>> \in
                {x \in shorter \X pool :
                    /\ Len(x[1]) = n - 1
                    /\ \A i \in DOMAIN x[1] : x[1][i].name # x[2].name}}

NonEmptyColLists(pool, n) == ColLists(pool, n) \ {<<>>}

PlainTable == TableOf(<<ColSpec(c_id, NoFk, TRUE, TRUE)>>)

\* Family 1: one table whose text columns normalize to colliding names
NamePool == {ColSpec(n, NoFk, FALSE, FALSE) : n \in {c_nm, c_Nm, c_NM, c_nm1}}

NameSchemas == {(tA :> TableOf(cs)) : cs \in NonEmptyColLists(NamePool, MaxNameCols)}

\* Family 2: tables a and b and a third table r (sorted first or last) with
\* foreign keys to a, b or itself; b may have a foreign key to r; the
\* foreign-key columns of r may be part of its primary key.
RelPool(r) ==
    {ColSpec(c_a_id, tA, FALSE, FALSE), ColSpec(c_b_id, tB, FALSE, FALSE),
     ColSpec(c_c_id, tA, FALSE, FALSE), ColSpec(c_p_id, r, FALSE, FALSE),
     ColSpec(c_id, NoFk, TRUE, TRUE), ColSpec(c_ID, NoFk, TRUE, TRUE),
     ColSpec(c_nm, NoFk, FALSE, FALSE)}

WithFkInPk(cs) == [i \in DOMAIN cs |-> IF IsFkSpec(cs[i]) THEN [cs[i] EXCEPT !.pk = TRUE] ELSE cs[i]]

RelSchemasOf(r) ==
    {(tA :> PlainTable) @@
     (tB :> TableOf(IF bref THEN <<ColSpec(c_id, NoFk, TRUE, TRUE), ColSpec(c_j_id, r, FALSE, FALSE)>>
                    ELSE <<ColSpec(c_id, NoFk, TRUE, TRUE)>>)) @@
     (r :> TableOf(IF fkpk THEN WithFkInPk(cs) ELSE cs)) :
        <<cs, bref, fkpk>> \in NonEmptyColLists(RelPool(r), MaxRelCols) \X BOOLEAN \X BOOLEAN}

RelSchemas == RelSchemasOf(tJ) \cup RelSchemasOf(tZ)

\* Family 3: table a and a table k whose columns vary in name, type and
\* primary-key membership
KeyPool ==
    {ColSpec(n, NoFk, pk, serial) : <<n, pk, serial>> \in {c_id, c_ID} \X BOOLEAN \X BOOLEAN}
    \cup {ColSpec(c_nm, NoFk, pk, FALSE) : pk \in BOOLEAN}
    \cup {ColSpec(c_a_id, tA, pk, FALSE) : pk \in BOOLEAN}

KeySchemas ==
    {(tA :> PlainTable) @@ (tK :> TableOf(cs)) : cs \in NonEmptyColLists(KeyPool, MaxKeyCols)}

\* Family 4: per dialect, a table a whose columns vary in type, among them
\* types the adapter of the dialect has no entry for, and a later table b.
\* A column type is [type_code, internal_size] as get_table_description of
\* the dialect reports it.
Dialects == {"postgresql", "mysql", "sqlite"}

\* sqlite.Introspection.get_table_description: type_code is the declared
\* type, internal_size is get_field_size of it
SqliteType(declared) == [type_code |-> declared, internal_size |-> get_field_size(declared)]

\* Type codes the adapters have no entry for: the OID of json in PostgreSQL,
\* FIELD_TYPE.JSON of MySQLdb, a declared type json in SQLite
TypePool(d) ==
    CASE d = "postgresql" ->
            {[type_code |-> IntCode, internal_size |-> 4], [type_code |-> TextCode, internal_size |-> None],
             [type_code |-> 1700, internal_size |-> None], [type_code |-> 114, internal_size |-> None]}
      [] d = "mysql" ->
            {[type_code |-> 3, internal_size |-> None], [type_code |-> 253, internal_size |-> 255],
             [type_code |-> 246, internal_size |-> None], [type_code |-> 245, internal_size |-> None]}
      [] d = "sqlite" ->
            {SqliteType(<<"i", "n", "t", "e", "g", "e", "r">>), SqliteType(<<"T", "E", "X", "T">>),
             SqliteType(<<"v", "a", "r", "c", "h", "a", "r", "(", "1", "1", ")">>), SqliteType(<<"j", "s", "o", "n">>)}

TypedColumn(name, ty) ==
    [name |-> name, type_code |-> ty.type_code, internal_size |-> ty.internal_size,
     precision |-> None, scale |-> None, null_ok |-> FALSE, default |-> ""]

TypedTable(names, tys) ==
    [type |-> "t", columns |-> [i \in DOMAIN tys |-> TypedColumn(names[i], tys[i])],
     relations |-> <<>>, constraints |-> <<>>, unsupported |-> {}]

TypeSchemas(d) ==
    {(tA :> TypedTable(<<c_nm, c_title, c_full_name>>, tys)) @@
     (tB :> TypedTable(<<c_nm>>, <<tb>>)) :
        <<tys, tb>> \in (UNION {[1..k -> TypePool(d)] : k \in 1..MaxTypeCols}) \X TypePool(d)}

\* Family 5: tables a, b and k; the adapter raises NotImplementedError from
\* get_relations, get_constraints or both for b, which has a primary key and
\* a foreign key to a
UnsupportedSchemas ==
    {(tA :> PlainTable) @@
     (tB :> [TableOf(<<ColSpec(c_id, NoFk, TRUE, TRUE), ColSpec(c_a_id, tA, FALSE, FALSE)>>)
                EXCEPT !.unsupported = u]) @@
     (tK :> PlainTable) :
        u \in (SUBSET {"get_relations", "get_constraints"}) \ {{}}}

\* Family 6: tables a, b and k, each with or without a foreign key: a and b
\* to k, k to a
WithFk(has, col, target) ==
    TableOf(IF has THEN <<ColSpec(c_id, NoFk, TRUE, TRUE), ColSpec(col, target, FALSE, FALSE)>>
            ELSE <<ColSpec(c_id, NoFk, TRUE, TRUE)>>)

OrderSchemas ==
    {(tA :> WithFk(fa, c_k_id, tK)) @@ (tB :> WithFk(fb, c_k_id, tK)) @@ (tK :> WithFk(fk, c_a_id, tA)) :
        <<fa, fb, fk>> \in BOOLEAN \X BOOLEAN \X BOOLEAN}

\* Family 7: table a and a table b with up to two foreign keys to a, a
\* primary key and a unique constraint on its column nm
EdgePool ==
    {ColSpec(c_id, NoFk, TRUE, TRUE), ColSpec(c_nm, NoFk, FALSE, FALSE),
     ColSpec(c_a_id, tA, FALSE, FALSE), ColSpec(c_c_id, tA, FALSE, FALSE)}

WithUnique(tab) ==
    IF \E i \in DOMAIN tab.columns : tab.columns[i].name = c_nm
    THEN [tab EXCEPT !.constraints = @ \o <<[columns |-> <<c_nm>>, primary_key |-> FALSE, unique |-> TRUE]>>]
    ELSE tab

EdgeSchemas ==
    {(tA :> PlainTable) @@ (tB :> WithUnique(TableOf(cs))) : cs \in NonEmptyColLists(EdgePool, MaxEdgeCols)}

\* Family 8: one table k whose columns vary in nullability and, for numeric
\* columns, in whether cursor.description reports precision and scale
NumericCode == 1700

ColumnShape(name, type_code, precision, scale, null_ok, serial, pk) ==
    [name |-> name, type_code |-> type_code, internal_size |-> None,
     precision |-> precision, scale |-> scale, null_ok |-> null_ok,
     default |-> IF serial THEN "nextval('seq'::regclass)" ELSE "", pk |-> pk]

ShapePool ==
    {ColumnShape(n, IntCode, None, None, FALSE, TRUE, TRUE) : n \in {c_id, c_ID}}
    \cup {ColumnShape(c_nm, TextCode, None, None, nl, FALSE, FALSE) : nl \in BOOLEAN}
    \cup {ColumnShape(c_title, NumericCode, p, s, nl, FALSE, FALSE) :
            <<p, s, nl>> \in {None, 8} \X {None, 2} \X BOOLEAN}

FieldInfoOfShape(c) ==
    [name |-> c.name, type_code |-> c.type_code, internal_size |-> c.internal_size,
     precision |-> c.precision, scale |-> c.scale, null_ok |-> c.null_ok, default |-> c.default]

ShapedTable(cs) ==
    LET pks == SelectSeq(cs, IsPkSpec)
    IN [type |-> "t",
        columns |-> [i \in DOMAIN cs |-> FieldInfoOfShape(cs[i])],
        relations |-> <<>>,
        constraints |-> IF pks = <<>> THEN <<>>
                        ELSE <<[columns |-> ColNamesOf(pks), primary_key |-> TRUE, unique |-> TRUE]>>,
        unsupported |-> {}]

ShapeSchemas == {(tK :> ShapedTable(cs)) : cs \in NonEmptyColLists(ShapePool, MaxShapeCols)}

\* Family 9: table a with or without a column named like the reverse
\* attribute a foreign key of b gives it (b_set), and table b with a foreign
\* key to a and with or without a column named like its to-one attribute (a)
c_b_set == <<"b", "_", "s", "e", "t">>

c_a == <<"a">>

ClashSchemas ==
    {(tA :> TableOf(<<ColSpec(c_id, NoFk, TRUE, TRUE), ColSpec(ca, NoFk, FALSE, FALSE)>>)) @@
     (tB :> TableOf(<<ColSpec(c_id, NoFk, TRUE, TRUE), ColSpec(cb, NoFk, FALSE, FALSE),
                      ColSpec(c_a_id, tA, FALSE, FALSE)>>)) :
        <<ca, cb>> \in {c_b_set, c_nm} \X {c_a, c_nm}}

\* Family 10: tables a and b, pony's bookkeeping table migration and a view
\* v; b may have foreign keys to a, to migration and to a table x that
\* get_table_list does not return (a table of a schema off the search path)
tV == <<"v">>

tX == <<"x">>

c_m_id == <<"m", "_", "i", "d">>

c_x_id == <<"x", "_", "i", "d">>

ForeignPool ==
    {ColSpec(c_id, NoFk, TRUE, TRUE), ColSpec(c_nm, NoFk, FALSE, FALSE),
     ColSpec(c_a_id, tA, FALSE, FALSE), ColSpec(c_m_id, s_migration, FALSE, FALSE),
     ColSpec(c_x_id, tX, FALSE, FALSE)}

ForeignSchemas ==
    {(tA :> PlainTable) @@ (tB :> TableOf(cs)) @@ (s_migration :> PlainTable) @@
     (tV :> [PlainTable EXCEPT !.type = "v"]) :
        cs \in NonEmptyColLists(ForeignPool, MaxForeignCols)}

\* Family 11: one table k(nm, title) whose constraints are unique
\* constraints and primary keys over one or both columns
KeyOver(cols, pk) == [columns |-> cols, primary_key |-> pk, unique |-> TRUE]

ConstraintLists ==
    {<<KeyOver(<<c_nm>>, FALSE)>>,
     <<KeyOver(<<c_nm, c_title>>, FALSE)>>,
     <<KeyOver(<<c_nm, c_title>>, FALSE), KeyOver(<<c_title>>, FALSE)>>,
     <<KeyOver(<<c_nm>>, TRUE), KeyOver(<<c_title>>, FALSE)>>,
     <<KeyOver(<<c_nm, c_title>>, TRUE)>>}

UniqueSchemas ==
    {(tK :> [TableOf(<<ColSpec(c_nm, NoFk, FALSE, FALSE), ColSpec(c_title, NoFk, FALSE, FALSE)>>)
                EXCEPT !.constraints = cons]) : cons \in ConstraintLists}

\* The schema of authors and books: author(id serial primary key, full_name
\* text), book(id serial primary key, title text, author_id -> author.id)
LibrarySchema ==
    (t_author :> TableOf(<<ColSpec(c_id, NoFk, TRUE, TRUE), ColSpec(c_full_name, NoFk, FALSE, FALSE)>>)) @@
    (t_book :> TableOf(<<ColSpec(c_id, NoFk, TRUE, TRUE), ColSpec(c_title, NoFk, FALSE, FALSE),
                         ColSpec(c_author_id, t_author, FALSE, FALSE)>>))

Schemas ==
    NameSchemas \cup RelSchemas \cup KeySchemas \cup OrderSchemas \cup ShapeSchemas
    \cup ClashSchemas \cup UniqueSchemas \cup {LibrarySchema}

\* ------------------------------------------------------------------------
\* The pipeline: Command.get_output -> _get_output -> _make_introspection
\* ------------------------------------------------------------------------
tables_to_introspect == table_names(catalog)

\* Command.imports as the class body sets it (cli.py 42)
InitialImports == {"from pony.orm import *"}

FirstRun == [n |-> 1, instance |-> "first", rows |-> "first"]

NoCall == [fn |-> "none"]

\* A new process and a new Command object about to run _get_output
StartOfRun ==
    /\ pc = "aggregate"
    /\ pos = 1
    /\ counters = <<>>
    /\ rel_counters = <<>>
    /\ ret = <<>>
    /\ ret_order = <<>>
    /\ epos = 1
    /\ lines = <<>>
    /\ imports = InitialImports
    /\ run = FirstRun
    /\ first_lines = <<>>
    /\ call = NoCall

Init ==
    /\ \/ /\ catalog \in Schemas
          /\ env = [dialect |-> "postgresql", debug |-> FALSE]
       \/ \E d \in Dialects :
             /\ catalog \in TypeSchemas(d)
             /\ env = [dialect |-> d, debug |-> FALSE]
       \/ \E dbg \in BOOLEAN :
             /\ catalog \in UnsupportedSchemas
             /\ env = [dialect |-> "postgresql", debug |-> dbg]
    /\ StartOfRun

\* The assignments one iteration leaves behind; res is its result
FinishIteration(res) ==
    IF res.raised
    THEN /\ pc' = "failed"
         /\ UNCHANGED <<pos, counters, rel_counters, ret, ret_order>>
    ELSE /\ pc' = pc
         /\ pos' = pos + 1
         /\ counters' = res.counters
         /\ rel_counters' = res.rel_counters
         /\ ret' = res.ret.map
         /\ ret_order' = res.ret.order

\* One iteration of the loop of _make_introspection. An exception leaves
\* the loop and the pipeline; no line is ever yielded then.
AggregateTable ==
    /\ pc = "aggregate"
    /\ pos <= Len(tables_to_introspect)
    /\ FinishIteration(IntrospectTable(catalog, tables_to_introspect[pos], counters, rel_counters,
                                       [map |-> ret, order |-> ret_order]))
    /\ UNCHANGED <<catalog, epos, lines, env, imports, run, first_lines, call>>

\* A variant of StartEmission that does not wait for the loop over the
\* tables to end
StartEmission_Early ==
    /\ pc = "aggregate"
    /\ lines' = <<[kind |-> "db"]>>
    /\ pc' = IF ret_order = <<>> THEN "done" ELSE "emit"
    /\ UNCHANGED <<catalog, pos, counters, rel_counters, ret, ret_order, epos>>
    /\ UNCHANGED <<env, imports, run, first_lines, call>>

\* _make_introspection returns; _get_output yields its first line
StartEmission ==
    /\ pc = "aggregate"
    /\ pos > Len(tables_to_introspect)
    /\ lines' = <<[kind |-> "db"]>>
    /\ pc' = IF ret_order = <<>> THEN "done" ELSE "emit"
    /\ UNCHANGED <<catalog, pos, counters, rel_counters, ret, ret_order, epos>>
    /\ UNCHANGED <<env, imports, run, first_lines, call>>

\* One iteration of the loop of _get_output over all_data.items()
EmitTable ==
    /\ pc = "emit"
    /\ epos <= Len(ret_order)
    /\ LET table_name == ret_order[epos]
           res == TableLines(table_name, ret[table_name], rel_counters)
       IN /\ lines' = lines \o res.lines
          /\ pc' = IF res.raised THEN "failed"
                   ELSE IF epos = Len(ret_order) THEN "done" ELSE "emit"
    /\ imports' = imports \cup TableImports(ret[ret_order[epos]])
    /\ epos' = epos + 1
    /\ UNCHANGED <<catalog, pos, counters, rel_counters, ret, ret_order>>
    /\ UNCHANGED <<env, run, first_lines, call>>

Next == AggregateTable \/ StartEmission \/ EmitTable

Spec == Init /\ [][Next]_vars

\* The pipeline on schemas with foreign keys that leave the set of tables
\* table_names returns
InitForeign ==
    /\ catalog \in ForeignSchemas
    /\ env = [dialect |-> "postgresql", debug |-> FALSE]
    /\ StartOfRun

SpecForeign == InitForeign /\ [][Next]_vars

\* ------------------------------------------------------------------------
\* The pure functions of sanitize_column_name.py, applied to bounded strings
\* ------------------------------------------------------------------------
\* Longest string the functions are applied to
MaxStrLen == 4

StringsUpTo(chars, n) == UNION {[1..k -> chars] : k \in 0..n}

\* Column names: the letters of "id", an uppercase letter, the underscore,
\* a digit and a character that is no word character
ColumnChars == {"i", "d", "A", "_", "1", "-"}

\* Identifier inputs: letters that spell keywords (in, none), the
\* underscore, a digit and a character slugify removes
IdentifierChars == {"n", "o", "e", "i", "_", "1", " "}

CaseTypes == {"snake", "camel", "title", "const"}

\* Longest table name table2model is applied to
MaxTableLen == 3

\* Table names: letters, the underscore, the space and a digit
TableChars == {"m", "y", "_", " ", "1"}

TableNames == StringsUpTo(TableChars, MaxTableLen) \ {<<>>}

\* No pipeline runs while a function is under study
PipelineIdle ==
    /\ catalog = <<>>
    /\ env = [dialect |-> "postgresql", debug |-> FALSE]
    /\ pc = "idle"
    /\ pos = 1
    /\ counters = <<>>
    /\ rel_counters = <<>>
    /\ ret = <<>>
    /\ ret_order = <<>>
    /\ epos = 1
    /\ lines = <<>>
    /\ imports = InitialImports
    /\ run = FirstRun
    /\ first_lines = <<>>

pipeline_vars == <<catalog, pc, pos, counters, rel_counters, ret, ret_order, epos, lines,
                   env, imports, run, first_lines>>

InitFunctions ==
    /\ PipelineIdle
    /\ \/ \E s \in StringsUpTo(ColumnChars, MaxStrLen), r \in BOOLEAN :
             call = [fn |-> "normalize_col_name", input |-> s, option |-> r,
                     state |-> "called", result |-> <<>>, again |-> <<>>]
       \/ \E s \in StringsUpTo(IdentifierChars, MaxStrLen), c \in CaseTypes :
             call = [fn |-> "str_to_py_identifier", input |-> s, option |-> c,
                     state |-> "called", result |-> <<>>, again |-> <<>>]
       \/ \E s, t \in TableNames :
             call = [fn |-> "table2model", input |-> s, option |-> t,
                     state |-> "called", result |-> <<>>, again |-> <<>>]

\* normalize_col_name(input, is_related=option) returns or raises
CallReturns(r) ==
    call' = IF r.raised THEN [call EXCEPT !.state = "raised"]
            ELSE [call EXCEPT !.state = "returned", !.result = [name |-> r.name, params |-> r.params]]

CallNormalize ==
    /\ call.fn = "normalize_col_name"
    /\ call.state = "called"
    /\ CallReturns(normalize_col_name(call.input, call.option))
    /\ UNCHANGED pipeline_vars

\* str_to_py_identifier(input, case_type=option) returns
CallIdentifier ==
    /\ call.fn = "str_to_py_identifier"
    /\ call.state = "called"
    /\ call' = [call EXCEPT !.state = "returned",
                            !.result = str_to_py_identifier(call.input, call.option)]
    /\ UNCHANGED pipeline_vars

\* str_to_py_identifier is applied to its own result
ReapplyIdentifier ==
    /\ call.fn = "str_to_py_identifier"
    /\ call.state = "returned"
    /\ call' = [call EXCEPT !.state = "reapplied",
                            !.again = str_to_py_identifier(call.result, call.option)]
    /\ UNCHANGED pipeline_vars

\* table2model is applied to the names of two tables of one schema (input
\* and option); result and again are the two class names
CallTable2Model ==
    /\ call.fn = "table2model"
    /\ call.state = "called"
    /\ call' = [call EXCEPT !.state = "returned",
                            !.result = table2model(call.input),
                            !.again = table2model(call.option)]
    /\ UNCHANGED pipeline_vars

NextFunctions == CallNormalize \/ CallIdentifier \/ ReapplyIdentifier \/ CallTable2Model

SpecFunctions == InitFunctions /\ [][NextFunctions]_vars

\* ------------------------------------------------------------------------
\* Two invocations of the pipeline in one process
\* ------------------------------------------------------------------------
TwiceSchemas == NameSchemas \cup OrderSchemas \cup EdgeSchemas \cup {LibrarySchema}

\* The orders in which a sequence of rows can come back
Perms(rows) ==
    {[i \in DOMAIN rows |-> rows[f[i]]] :
        f \in {g \in [DOMAIN rows -> DOMAIN rows] : \A i, j \in DOMAIN rows : g[i] = g[j] => i = j}}

\* What the adapter can report for a table when the catalog returns the
\* foreign-key rows (get_relations) and the constraint rows
\* (get_constraints) in any order
TableOrders(tab) ==
    {[tab EXCEPT !.relations = r, !.constraints = c] :
        <<r, c>> \in Perms(tab.relations) \X Perms(tab.constraints)}

\* The reports of the same schema that differ from cat in a row order
Reorderings(cat) ==
    {c2 \in [DOMAIN cat -> UNION {TableOrders(cat[t]) : t \in DOMAIN cat}] :
        \A t \in DOMAIN cat : c2[t] \in TableOrders(cat[t])} \ {cat}

InitTwice ==
    /\ catalog \in TwiceSchemas
    /\ env = [dialect |-> "postgresql", debug |-> FALSE]
    /\ StartOfRun

\* _get_output is called a second time in the process: on the Command
\* object of the first call, whose cached properties field_counters and
\* relations_counters (cli.py 58-64) keep their dictionaries, or on a new
\* Command object; ret is a local of _make_introspection, Command.imports
\* is an attribute of the class. The catalog returns its rows in the same
\* or in another order.
Reinvoke ==
    /\ pc = "done"
    /\ run.n = 1
    /\ \E instance \in {"same", "fresh"}, rows \in {"same", "reordered"} :
          /\ run' = [n |-> 2, instance |-> instance, rows |-> rows]
          /\ counters' = IF instance = "same" THEN counters ELSE <<>>
          /\ rel_counters' = IF instance = "same" THEN rel_counters ELSE <<>>
          /\ IF rows = "same" THEN catalog' = catalog ELSE catalog' \in Reorderings(catalog)
    /\ first_lines' = lines
    /\ pc' = "aggregate"
    /\ pos' = 1
    /\ ret' = <<>>
    /\ ret_order' = <<>>
    /\ epos' = 1
    /\ lines' = <<>>
    /\ UNCHANGED <<env, imports, call>>

NextTwice == AggregateTable \/ StartEmission \/ EmitTable \/ Reinvoke

SpecTwice == InitTwice /\ [][NextTwice]_vars

TypeOK ==
    /\ pc \in {"aggregate", "emit", "done", "failed", "idle"}
    /\ pos \in 1..(Len(tables_to_introspect) + 1)
    /\ epos \in 1..(Len(ret_order) + 1)

\* ------------------------------------------------------------------------
\* Vocabulary of the properties
\* ------------------------------------------------------------------------
\* _make_introspection has returned
AggregationDone == pc \in {"emit", "done"} \/ (pc = "aggregate" /\ pos > Len(tables_to_introspect))

\* Tables whose iteration of the aggregation loop has finished
TablesAggregated == {tables_to_introspect[i] : i \in 1..(pos - 1)}

\* The iteration of t stored t's description (cli.py 155-160). Every table
\* of the schemas has at least one column, so this tells the tables that
\* went through the relation branch from those that left through the m2m
\* branch.
ProcessedAsEntity(t) == t \in DOMAIN ret /\ ret[t].description # <<>>

\* t was classified as a many-to-many junction by its iteration
ProcessedAsJunction(t) ==
    t \in TablesAggregated /\ ~is_pony_table(t) /\ ~ProcessedAsEntity(t)

\* Column i of table t is no foreign-key column in the catalog
NonRelation(t, i) == ~RelHas(RelationsOrEmpty(catalog[t]), catalog[t].columns[i].name)

HasKw(kwargs, k) == \E i \in DOMAIN kwargs : kwargs[i].key = k

KwVal(kwargs, k) == kwargs[CHOOSE i \in DOMAIN kwargs : kwargs[i].key = k].val

\* The emitted lines of one kind that belong to the class of table t
LinesOf(t, kind) == SelectSeq(lines, LAMBDA l : l.kind = kind /\ l.table = t)

NamesOf(ls) == [i \in DOMAIN ls |-> ls[i].name]

\* The foreign-key entries of table t that reference table u
FkCols(t, u) == SelectSeq(RelationsOrEmpty(catalog[t]), LAMBDA r : r.ref_table = u)

\* ------------------------------------------------------------------------
\* C1, C2: field names of non-relation columns
\* ------------------------------------------------------------------------
\* C1 (as claimed): the field names emitted for the non-relation columns of
\* one table are pairwise distinct.
C1_FieldNamesDistinct ==
    \A i, j \in DOMAIN lines :
        (/\ i # j
         /\ lines[i].kind = "field" /\ lines[j].kind = "field"
         /\ lines[i].table = lines[j].table)
        => lines[i].name # lines[j].name

\* Number of non-relation columns among the first i columns of t whose
\* normalized name is n
Occurrence(t, n, i) ==
    Cardinality({j \in 1..i : NonRelation(t, j)
                              /\ normalize_col_name(catalog[t].columns[j].name, FALSE).name = n})

\* C2 (as claimed): the k-th non-relation column of a table whose normalized
\* name is n is named n for k = 1 and n followed by k-1 for k >= 2.
C2_SuffixIsOccurrence ==
    \A t \in DOMAIN catalog :
        ProcessedAsEntity(t) =>
            \A i \in DOMAIN catalog[t].columns :
                NonRelation(t, i) =>
                    LET n == normalize_col_name(catalog[t].columns[i].name, FALSE).name
                    IN ret[t].description[i].name = n \o StrOrEmpty(Occurrence(t, n, i) - 1)

\* ------------------------------------------------------------------------
\* C3: the reverse= keyword
\* ------------------------------------------------------------------------
\* C3: an emitted relationship declaration on table T with target U carries
\* reverse= exactly when the final edge counter (T, U) exceeds 1, and the
\* value is the name of the paired attribute stored on U (the attribute that
\* targets T and names this attribute as its reverse).
C3_ReverseKeyword ==
    \A i \in DOMAIN lines :
        lines[i].kind = "rel" =>
            LET l == lines[i]
            IN /\ HasKw(l.kwargs, "reverse") <=> CounterGet(rel_counters, <<l.table, l.target>>) > 1
               /\ HasKw(l.kwargs, "reverse") =>
                    /\ l.target \in DOMAIN ret
                    /\ \E j \in DOMAIN ret[l.target].rel_attrs :
                          LET y == ret[l.target].rel_attrs[j]
                          IN /\ y.name = KwVal(l.kwargs, "reverse")
                             /\ y.table = l.table
                             /\ y.reverse = l.name

\* Emission finished with one declaration that carries reverse= and one
\* that does not
C3_Witness ==
    /\ pc = "done"
    /\ \E i, j \in DOMAIN lines :
          /\ lines[i].kind = "rel" /\ HasKw(lines[i].kwargs, "reverse")
          /\ lines[j].kind = "rel" /\ ~HasKw(lines[j].kwargs, "reverse")

\* ------------------------------------------------------------------------
\* C4: edge counters of k foreign keys from T to U
\* ------------------------------------------------------------------------
\* No relationship between t and u other than t's foreign keys to u: u has
\* no foreign key to t and no junction table references both
NoOtherRelationship(t, u) ==
    /\ FkCols(u, t) = <<>>
    /\ \A x \in DOMAIN catalog :
          ProcessedAsJunction(x) => (FkCols(x, t) = <<>> \/ FkCols(x, u) = <<>>)

C4_Case(t, u) ==
    /\ t # u
    /\ ProcessedAsEntity(t)
    /\ Len(FkCols(t, u)) >= 1
    /\ NoOtherRelationship(t, u)

\* C4: after aggregation, for distinct tables T (no junction) and U with
\* exactly k foreign keys from T to U and no other relationship, the edge
\* counters (T, U) and (U, T) are both k; for k = 2 the two to-many
\* declarations on U carry reverse= with the name of the to-one attribute
\* made from the same foreign key.
C4_EdgeCounters ==
    AggregationDone =>
        \A t, u \in DOMAIN catalog :
            C4_Case(t, u) =>
                LET fks == FkCols(t, u)
                    k == Len(fks)
                    fwd == SelectSeq(ret[t].rel_attrs, LAMBDA x : x.cls = "Required" /\ x.table = u)
                    rev == SelectSeq(LinesOf(u, "rel"), LAMBDA l : l.cls = "Set" /\ l.target = t)
                IN /\ CounterGet(rel_counters, <<t, u>>) = k
                   /\ CounterGet(rel_counters, <<u, t>>) = k
                   /\ (k = 2 /\ pc = "done") =>
                        /\ Len(fwd) = 2 /\ Len(rev) = 2
                        /\ \A i \in 1..2 :
                              LET n == normalize_col_name(fks[i].col, TRUE)
                              IN /\ StartsWith(fwd[i].name, n.name)
                                 /\ fwd[i].kwargs = n.params
                                 /\ HasKw(rev[i].kwargs, "reverse")
                                 /\ KwVal(rev[i].kwargs, "reverse") = fwd[i].name
                        /\ fwd[1].name # fwd[2].name

\* Emission finished for a schema with two foreign keys from T to U
C4_Witness ==
    /\ pc = "done"
    /\ \E t, u \in DOMAIN catalog : C4_Case(t, u) /\ Len(FkCols(t, u)) = 2

\* ------------------------------------------------------------------------
\* C5: relationship attributes come in mutually referencing pairs
\* ------------------------------------------------------------------------
\* C5: after any prefix of the tables has been aggregated, every stored
\* relationship attribute x on T (target U, reverse r) has a counterpart on U
\* named r that targets T and whose reverse is x's name.
C5_PairedAttributes ==
    \A t \in DOMAIN ret :
        \A i \in DOMAIN ret[t].rel_attrs :
            LET x == ret[t].rel_attrs[i]
            IN /\ x.table \in DOMAIN ret
               /\ \E j \in DOMAIN ret[x.table].rel_attrs :
                     LET y == ret[x.table].rel_attrs[j]
                     IN y.name = x.reverse /\ y.table = t /\ y.reverse = x.name

\* Attributes from a junction table and from a foreign key are both stored
C5_Witness ==
    /\ AggregationDone
    /\ \E t \in DOMAIN catalog : ProcessedAsJunction(t)
    /\ \E t \in DOMAIN ret : \E i \in DOMAIN ret[t].rel_attrs : ret[t].rel_attrs[i].cls = "Required"

\* ------------------------------------------------------------------------
\* C6, C7, C8: junction tables
\* ------------------------------------------------------------------------
\* The to-many attributes stored on table t
SetAttrs(t) ==
    IF t \in DOMAIN ret THEN SelectSeq(ret[t].rel_attrs, LAMBDA x : x.cls = "Set") ELSE <<>>

\* r is a table whose only columns are a_id -> a.id and b_id -> b.id, both
\* in the primary key; a has no column b_id and b has no column a_id
C6_Case(r) ==
    /\ r \in TablesAggregated
    /\ {tA, tB} \subseteq DOMAIN catalog
    /\ ColNamesOf(catalog[r].columns) \in {<<c_a_id, c_b_id>>, <<c_b_id, c_a_id>>}
    /\ Len(RelationsOrEmpty(catalog[r])) = 2
    /\ RelTable(RelationsOrEmpty(catalog[r]), c_a_id) = tA
    /\ RelTable(RelationsOrEmpty(catalog[r]), c_b_id) = tB
    /\ Range(get_primary_key_columns(catalog[r].constraints)) = {c_a_id, c_b_id}
    /\ \A i \in DOMAIN catalog[tA].columns : catalog[tA].columns[i].name # c_b_id
    /\ \A i \in DOMAIN catalog[tB].columns : catalog[tB].columns[i].name # c_a_id

s_a_set == <<"a">> \o s__set

s_b_set == <<"b">> \o s__set

\* name, target and reverse of an attribute
AttrTriple(x) == <<x.name, x.table, x.reverse>>

C7_JunctionElided ==
    \A t \in DOMAIN catalog :
        ProcessedAsJunction(t) =>
            /\ t \notin DOMAIN ret
            /\ LinesOf(t, "class") = <<>>

\* The junction condition of the specification, on the catalog's own names
SpecJunction(t) ==
    /\ \A i \in DOMAIN catalog[t].columns :
          \/ ~NonRelation(t, i)
          \/ catalog[t].columns[i].name \in Range(get_primary_key_columns(catalog[t].constraints))
    /\ Cardinality({RelationsOrEmpty(catalog[t])[i].ref_table : i \in DOMAIN RelationsOrEmpty(catalog[t])}) = 2

\* C8 (as claimed): a table is treated as a junction exactly when all its
\* columns are foreign-key or primary-key columns and its foreign keys
\* reference exactly two tables; the iteration of such a table never fails
\* and stores a to-many attribute on each of the two referenced tables.
C8_JunctionClassification ==
    /\ \A t \in TablesAggregated :
          ~is_pony_table(t) =>
              /\ ProcessedAsJunction(t) <=> SpecJunction(t)
              /\ SpecJunction(t) =>
                    \A i \in DOMAIN RelationsOrEmpty(catalog[t]) :
                        LET u == RelationsOrEmpty(catalog[t])[i].ref_table
                        IN \E j \in DOMAIN SetAttrs(u) :
                              SetAttrs(u)[j].table \in
                                  {RelationsOrEmpty(catalog[t])[m].ref_table : m \in DOMAIN RelationsOrEmpty(catalog[t])} \ {u}
    /\ (pc = "failed" /\ lines = <<>>) => ~SpecJunction(tables_to_introspect[pos])

\* ------------------------------------------------------------------------
\* C9, C10: primary keys in the emitted class
\* ------------------------------------------------------------------------
Indices(s) == [i \in 1..Len(s) |-> i]

\* Column i of t is the sole primary-key column of the catalog, its field
\* name is id, its type is AUTO and the type contributes no parameter
SpecElided(t, i) ==
    /\ get_primary_key_columns(catalog[t].constraints) = <<catalog[t].columns[i].name>>
    /\ ret[t].description[i].name = s_id
    /\ get_field_type(catalog[t].columns[i]).field_type = "AUTO"
    /\ get_field_type(catalog[t].columns[i]).field_params = <<>>

\* C9 (as claimed): the field declarations of a class are, in order, those
\* of the non-relation columns other than the sole primary-key column named
\* id of type AUTO; every other non-relation column has exactly one.
C9_IdElision ==
    pc = "done" =>
        \A t \in DOMAIN catalog :
            ProcessedAsEntity(t) =>
                LET kept == SelectSeq(Indices(catalog[t].columns),
                                      LAMBDA i : NonRelation(t, i) /\ ~SpecElided(t, i))
                IN NamesOf(LinesOf(t, "field")) = [j \in DOMAIN kept |-> ret[t].description[kept[j]].name]

\* The lines of the class of table t
ClassLines(t) == SelectSeq(lines, LAMBDA l : l.kind # "db" /\ l.table = t)

\* Tables for which the emission loop has run an iteration
TablesEmitted == {ret_order[i] : i \in 1..(epos - 1)}

\* C10 (as claimed): emission of a table with more than one primary-key
\* column completes and ends the class with one composite-key declaration of
\* the normalized names of the primary-key columns in catalog order, each
\* the name of an attribute declared in the class; a table with at most one
\* primary-key column has no such declaration.
C10_CompositeKey ==
    \A t \in TablesEmitted :
        (t \in DOMAIN catalog /\ ProcessedAsEntity(t)) =>
            LET pk == get_primary_key_columns(catalog[t].constraints)
                cl == ClassLines(t)
                declared == {cl[i].name : i \in {j \in DOMAIN cl : cl[j].kind \in {"field", "rel"}}}
                col(c) == CHOOSE i \in DOMAIN catalog[t].columns : catalog[t].columns[i].name = c
            IN IF Len(pk) > 1
               THEN /\ ~(pc = "failed" /\ ret_order[epos - 1] = t)
                    /\ Len(LinesOf(t, "pk")) = 1
                    /\ cl[Len(cl)].kind = "pk"
                    /\ Len(cl[Len(cl)].attrs) = Len(pk)
                    /\ \A j \in DOMAIN pk :
                          /\ cl[Len(cl)].attrs[j] \in declared
                          /\ NonRelation(t, col(pk[j])) =>
                                cl[Len(cl)].attrs[j] = ret[t].description[col(pk[j])].name
               ELSE LinesOf(t, "pk") = <<>>

\* ------------------------------------------------------------------------
\* C11: the schema of authors and books
\* ------------------------------------------------------------------------
s_Author == <<"A", "u", "t", "h", "o", "r">>

s_Book == <<"B", "o", "o", "k">>

s_author == <<"a", "u", "t", "h", "o", "r">>

s_book_set == <<"b", "o", "o", "k", "_", "s", "e", "t">>

\* The lines of kind k emitted under the class whose model name is m
LinesOfModel(m, k) ==
    SelectSeq(lines, LAMBDA l : l.kind = k /\ table2model(l.table) = m)

\* C11: for the schema of authors and books the output has a class Author
\* with the single field full_name (no id field) and the single relationship
\* attribute book_set, a Set targeting Book; and a class Book with the
\* single field title (no id field) and the single relationship attribute
\* author, a Required targeting Author; no relationship carries reverse=.
C11_AuthorBook ==
    (catalog = LibrarySchema /\ pc = "done") =>
        /\ [i \in 1..2 |-> SelectSeq(lines, LAMBDA l : l.kind = "class")[i].model] = <<s_Author, s_Book>>
        /\ Len(SelectSeq(lines, LAMBDA l : l.kind = "class")) = 2
        /\ NamesOf(LinesOfModel(s_Author, "field")) = <<c_full_name>>
        /\ NamesOf(LinesOfModel(s_Book, "field")) = <<c_title>>
        /\ Len(LinesOfModel(s_Author, "rel")) = 1
        /\ LET r == LinesOfModel(s_Author, "rel")[1]
           IN r.name = s_book_set /\ r.cls = "Set" /\ r.model = s_Book /\ ~HasKw(r.kwargs, s_reverse)
        /\ Len(LinesOfModel(s_Book, "rel")) = 1
        /\ LET r == LinesOfModel(s_Book, "rel")[1]
           IN r.name = s_author /\ r.cls = "Required" /\ r.model = s_Author /\ ~HasKw(r.kwargs, s_reverse)

\* C11 witness: the pipeline has finished on the schema of authors and
\* books and emitted the two classes
C11_Witness ==
    /\ catalog = LibrarySchema
    /\ pc = "done"
    /\ Len(SelectSeq(lines, LAMBDA l : l.kind = "class")) = 2

\* ------------------------------------------------------------------------
\* C12: the column= override
\* ------------------------------------------------------------------------
\* The emitted to-one relationship lines of table t, in emission order
ToOneLines(t) == SelectSeq(LinesOf(t, "rel"), LAMBDA l : l.cls = "Required")

\* Line l binds to the catalog column col: its name is the column's name, or
\* it carries column=col
BindsTo(l, col) == l.name # col => (HasKw(l.kwargs, "column") /\ KwVal(l.kwargs, "column") = col)

\* C12 (as claimed): every emitted field line of a non-relation column and
\* every emitted to-one relationship line whose attribute name differs from
\* the catalog column name carries column=<catalog column name>.
C12_ColumnOverride ==
    \A t \in DOMAIN catalog :
        ProcessedAsEntity(t) =>
            /\ \A i \in DOMAIN catalog[t].columns :
                   NonRelation(t, i) =>
                       \A k \in DOMAIN lines :
                           (/\ lines[k].kind = "field"
                            /\ lines[k].table = t
                            /\ lines[k].name = ret[t].description[i].name)
                           => BindsTo(lines[k], catalog[t].columns[i].name)
            /\ \A k \in DOMAIN ToOneLines(t) :
                   BindsTo(ToOneLines(t)[k], RelationsOrEmpty(catalog[t])[k].col)

\* ------------------------------------------------------------------------
\* C13, C14, C15: the pure functions
\* ------------------------------------------------------------------------
\* C13 (as claimed): normalize_col_name returns for every input string and
\* both values of is_related; it never raises.
C13_NormalizeNeverRaises ==
    call.fn = "normalize_col_name" => call.state # "raised"

\* C14 (as claimed): applying str_to_py_identifier to its own result with
\* the same case style gives that result again.
C14_Idempotent ==
    (call.fn = "str_to_py_identifier" /\ call.state = "reapplied") => call.again = call.result

\* C15 (as claimed): the result of str_to_py_identifier is a valid
\* identifier and no keyword.
C15_ValidIdentifier ==
    (call.fn = "str_to_py_identifier" /\ call.state = "returned")
    => (IsIdentifier(call.result) /\ ~IsKeyword(call.result))

\* ------------------------------------------------------------------------
\* C16: type codes the adapter does not recognize
\* ------------------------------------------------------------------------
\* The adapter of dialect d has no entry for the type code
Unrecognized(d, type_code) ==
    CASE d = "postgresql" -> type_code \notin PgTypeCodes
      [] d = "mysql" -> type_code \notin MysqlTypeCodes
      [] d = "sqlite" -> StrLower(type_code) \notin SqliteTypeNames

\* The tables whose iteration of the emission loop has begun
EmissionBegun == {ret_order[k] : k \in 1..(epos - 1)}

\* C16 (as claimed): for a column whose type code the adapter does not
\* recognize, get_field_type does not raise, and once the class of its
\* table is emitted the column's field line has the type LongStr and the
\* note 'This field type is a guess.'
C16_UnknownTypeIsGuessed ==
    \A t \in EmissionBegun :
        \A i \in DOMAIN ret[t].description :
            Unrecognized(env.dialect, ret[t].description[i].type_code) =>
                /\ ~get_field_type(ret[t].description[i]).raised
                /\ ~RelHas(ret[t].relations, ret[t].description[i].name) =>
                       \E k \in DOMAIN lines :
                           /\ lines[k].kind = "field"
                           /\ lines[k].table = t
                           /\ lines[k].name = ret[t].description[i].name
                           /\ lines[k].type = "LongStr"
                           /\ "This field type is a guess." \in Range(lines[k].notes)

\* ------------------------------------------------------------------------
\* C17: catalog capabilities the adapter does not support
\* ------------------------------------------------------------------------
\* _make_introspection was left by an exception
AggregationFailed == pc = "failed" /\ pos <= Len(tables_to_introspect)

\* C17 (as claimed): with DEBUG unset, no iteration of the aggregation loop
\* fails on a table for which get_relations or get_constraints is not
\* supported, and a table stored after such a failure has the empty result
\* for that capability; with DEBUG set, no such table gets through its
\* iteration.
C17_NotSupported ==
    /\ (~env.debug /\ AggregationFailed) => catalog[tables_to_introspect[pos]].unsupported = {}
    /\ ~env.debug =>
          \A t \in TablesAggregated :
              ProcessedAsEntity(t) =>
                  /\ "get_relations" \in catalog[t].unsupported => ret[t].relations = <<>>
                  /\ "get_constraints" \in catalog[t].unsupported =>
                         (ret[t].constraints = <<>> /\ ret[t].primary_key_columns = <<>>)
    /\ env.debug => \A t \in TablesAggregated : catalog[t].unsupported = {}

\* ------------------------------------------------------------------------
\* C18: the order of the classes
\* ------------------------------------------------------------------------
\* The tables of the emitted class lines, in emission order
EmittedTables == [i \in DOMAIN SelectSeq(lines, LAMBDA l : l.kind = "class") |->
                     SelectSeq(lines, LAMBDA l : l.kind = "class")[i].table]

\* Table x comes before table y in the list table_names returned
Precedes(x, y) ==
    \E i, j \in DOMAIN tables_to_introspect :
        i < j /\ tables_to_introspect[i] = x /\ tables_to_introspect[j] = y

\* C18 (as claimed): a class is never emitted after the class of a table
\* that follows its own table in table_names.
C18_ClassOrder ==
    \A i, j \in DOMAIN EmittedTables :
        Precedes(EmittedTables[i], EmittedTables[j]) => i < j

\* ------------------------------------------------------------------------
\* C19, C20: two invocations on the same schema
\* ------------------------------------------------------------------------
SecondRunEnded == run.n = 2 /\ pc \in {"done", "failed"}

\* C19 (as claimed): a second invocation in the same process, for which the
\* catalog reports the same rows in the same order, yields the lines of
\* the first invocation.
C19_SecondRunSame ==
    (SecondRunEnded /\ run.rows = "same") => (pc = "done" /\ lines = first_lines)

\* C20 (as claimed): an invocation on a new Command object for which the
\* catalog returns the foreign-key rows and constraint rows of the same
\* schema in another order yields the lines of the first invocation.
C20_RowOrderIrrelevant ==
    (SecondRunEnded /\ run.rows = "reordered" /\ run.instance = "fresh")
    => (pc = "done" /\ lines = first_lines)

\* ------------------------------------------------------------------------
\* C21: aggregation is complete before the first line
\* ------------------------------------------------------------------------
NoLineYet == lines = <<>>

AggregationComplete == pos > Len(tables_to_introspect)

C21_State ==
    /\ ~NoLineYet => AggregationComplete
    /\ AggregationFailed => NoLineYet

\* C21: a line exists only after every table was aggregated; once a line
\* exists no step changes counters, rel_counters or ret; and a run whose
\* aggregation ended in an exception has no line.
C21_NoOverlap ==
    /\ []C21_State
    /\ [][~NoLineYet => UNCHANGED <<counters, rel_counters, ret, ret_order>>]_vars

\* Lines were emitted for a schema of at least two tables
C21_Witness ==
    /\ pc = "done"
    /\ Len(tables_to_introspect) >= 2
    /\ Len(lines) > 1

\* ------------------------------------------------------------------------
\* C22: the container of a field declaration
\* ------------------------------------------------------------------------
\* The columns of t that are no foreign key, in catalog order
NonRelationColumns(t) ==
    SelectSeq(Indices(catalog[t].columns), LAMBDA i : NonRelation(t, i))

\* The container the decision table gives column c of table t
ContainerOf(t, c) ==
    IF get_primary_key_columns(catalog[t].constraints) = <<c.name>> THEN "PrimaryKey"
    ELSE IF c.null_ok THEN "Optional"
    ELSE "Required"

\* C22 (as claimed): in a class that declares every non-relation column of
\* its table, the column that is the sole primary key is declared with
\* PrimaryKey, whatever its catalog name; any other nullable column with
\* Optional; any other column with Required.
C22_ContainerKind ==
    pc = "done" =>
        \A t \in DOMAIN catalog :
            (ProcessedAsEntity(t) /\ Len(LinesOf(t, "field")) = Len(NonRelationColumns(t))) =>
                \A j \in DOMAIN NonRelationColumns(t) :
                    LinesOf(t, "field")[j].cls =
                        ContainerOf(t, catalog[t].columns[NonRelationColumns(t)[j]])

\* ------------------------------------------------------------------------
\* C23: precision and scale of decimal columns
\* ------------------------------------------------------------------------
GuessedNote ==
    "scale and precision have been guessed, as this database handles decimal fields as float"

\* The adapter of the dialect maps the column to the type Decimal
MappedToDecimal(c) ==
    /\ introspection_get_field_type(env.dialect, c).error = "none"
    /\ introspection_get_field_type(env.dialect, c).field_type = "Decimal"

DecimalColumns(t) ==
    SelectSeq(NonRelationColumns(t), LAMBDA i : MappedToDecimal(catalog[t].columns[i]))

DecimalLines(t) == SelectSeq(LinesOf(t, "field"), LAMBDA l : l.type = "Decimal")

ReportedOr(v, default) == StrOfNat(IF v # None THEN v ELSE default)

IntrospectionOf(r, t) == IF t \in DOMAIN r THEN r[t] ELSE EmptyIntrospection

IsPrefix(s, t) == Len(s) <= Len(t) /\ SubSeq(t, 1, Len(s)) = s

OnlyAttrsAppended(old, new) ==
    /\ new.description = old.description
    /\ new.relations = old.relations
    /\ new.constraints = old.constraints
    /\ new.primary_key_columns = old.primary_key_columns
    /\ new.unique_columns = old.unique_columns
    /\ IsPrefix(old.rel_attrs, new.rel_attrs)

\* C24: a step changes of the entry of a table whose own iteration has
\* finished nothing but rel_attrs, and that only by appending.
C24_Frame ==
    [][\A t \in TablesAggregated :
          OnlyAttrsAppended(IntrospectionOf(ret, t), IntrospectionOf(ret', t))]_vars

\* The iteration of a later table u has appended a reverse attribute to the
\* entry of the earlier table t, which held an attribute before
C24_Witness ==
    \E i, j \in 1..(pos - 1) :
        /\ i < j
        /\ tables_to_introspect[i] \in DOMAIN ret
        /\ LET t == tables_to_introspect[i]
               u == tables_to_introspect[j]
           IN /\ ProcessedAsEntity(u)
              /\ FkCols(u, t) # <<>>
              /\ Len(ret[t].rel_attrs) >= 2
              /\ ret[t].rel_attrs[Len(ret[t].rel_attrs)].table = u

\* ------------------------------------------------------------------------
\* C25: attribute names of a class across kinds
\* ------------------------------------------------------------------------
\* The field and relationship declarations of the class of table t
AttributeLines(t) == SelectSeq(lines, LAMBDA l : l.kind \in {"field", "rel"} /\ l.table = t)

\* C25 (as claimed): in an emitted class a relationship attribute shares its
\* name with no other attribute of the class, be it a field, a to-one
\* attribute, a reverse attribute or an attribute from a junction table.
C25_AttributeNamesDistinct ==
    pc = "done" =>
        \A t \in DOMAIN ret :
            \A i, j \in DOMAIN AttributeLines(t) :
                (i # j /\ AttributeLines(t)[i].kind = "rel") =>
                    AttributeLines(t)[i].name # AttributeLines(t)[j].name

\* ------------------------------------------------------------------------
\* C26: edge counters and stored relationship attributes
\* ------------------------------------------------------------------------
\* Every table name that is a key of ret or part of a key of rel_counters,
\* and every table of the catalog
EdgeEnds ==
    DOMAIN catalog \cup DOMAIN ret \cup UNION {{k[1], k[2]} : k \in DOMAIN rel_counters}

\* The relationship attributes stored on table a whose target is table b
AttrsTo(a, b) == SelectSeq(IntrospectionOf(ret, a).rel_attrs, LAMBDA x : x.table = b)

\* C26: in every state of the aggregation and after it, the edge counter of
\* each ordered pair of tables (a, b) is the number of relationship
\* attributes stored on a with target b, and equals the counter of (b, a).
C26_EdgeCounterIsAttrCount ==
    \A a, b \in EdgeEnds :
        /\ CounterGet(rel_counters, <<a, b>>) = Len(AttrsTo(a, b))
        /\ CounterGet(rel_counters, <<a, b>>) = CounterGet(rel_counters, <<b, a>>)

\* A proper prefix of the tables has been aggregated; it holds a table with
\* a foreign key to itself
C26_Witness ==
    /\ pc = "aggregate"
    /\ pos <= Len(tables_to_introspect)
    /\ \E a \in EdgeEnds : CounterGet(rel_counters, <<a, a>>) = 2

\* ------------------------------------------------------------------------
\* C27: the tables that get a class
\* ------------------------------------------------------------------------
\* t is a table table_names returns and the aggregation loop does not skip
IntrospectedTable(t) ==
    /\ t \in DOMAIN catalog
    /\ catalog[t].type = "t"
    /\ ~is_pony_table(t)

\* C27 (as claimed): every class line belongs to a table that table_names
\* returns and the aggregation loop does not skip; a foreign key to any
\* other table adds no class.
C27_ClassesOfIntrospectedTables ==
    \A i \in DOMAIN lines : lines[i].kind = "class" => IntrospectedTable(lines[i].table)

\* ------------------------------------------------------------------------
\* C28: the target of a relationship declaration
\* ------------------------------------------------------------------------
\* The output has a class declaration for table t under the class name m
ClassEmitted(t, m) ==
    \E i \in DOMAIN lines : lines[i].kind = "class" /\ lines[i].table = t /\ lines[i].model = m

\* C28: in a finished output every relationship declaration, be it a
\* to-one attribute, a reverse attribute or an attribute from a junction
\* table, names the class of a class declaration of the same output.
C28_TargetClassEmitted ==
    pc = "done" =>
        \A i \in DOMAIN lines :
            lines[i].kind = "rel" => ClassEmitted(lines[i].target, lines[i].model)

\* A finished output with a to-one attribute whose target is a table the
\* aggregation loop never visits
C28_Witness ==
    /\ pc = "done"
    /\ \E i \in DOMAIN lines :
          /\ lines[i].kind = "rel"
          /\ lines[i].cls = "Required"
          /\ ~IntrospectedTable(lines[i].target)

\* ------------------------------------------------------------------------
\* C29: unique=True
\* ------------------------------------------------------------------------
\* Column k of table t is unique by itself: a unique constraint of the
\* catalog has exactly that column
UniqueAlone(t, k) ==
    \E c \in DOMAIN catalog[t].constraints :
        /\ catalog[t].constraints[c].unique
        /\ catalog[t].constraints[c].columns = <<catalog[t].columns[k].name>>

\* C29 (as claimed): in a finished output a field declaration with
\* unique=True is that of a column that is unique by itself.
C29_UniqueOnlyIfAlone ==
    pc = "done" =>
        \A i \in DOMAIN lines :
            (lines[i].kind = "field" /\ HasKw(lines[i].kwargs, "unique")) =>
                \E k \in DOMAIN ret[lines[i].table].description :
                    /\ ret[lines[i].table].description[k].name = lines[i].name
                    /\ UniqueAlone(lines[i].table, k)

\* ------------------------------------------------------------------------
\* C30: class names
\* ------------------------------------------------------------------------
\* C30 (as claimed): the class names table2model gives two distinct table
\* names are distinct, and a class name is a valid identifier.
C30_ClassNamesDistinct ==
    (call.fn = "table2model" /\ call.state = "returned") =>
        /\ call.input # call.option => call.result # call.again
        /\ IsIdentifier(call.result)

====
